---- MODULE Spec2Model ----
(***************************************************************************)
(* File Commander (src/file-commander.py): the location resolver, the      *)
(* operation handlers, the dispatcher and the batch loop of `command`,     *)
(* over a POSIX filesystem (os.name == 'posix').                           *)
(*                                                                         *)
(* A Python str is a sequence of one-character strings; None is the        *)
(* one-element sequence None, whose element is no character.  A canonical  *)
(* filesystem path is a sequence of name components; the filesystem is a   *)
(* function from the canonical paths that exist to their nodes.            *)
(***************************************************************************)
EXTENDS Integers, Sequences, FiniteSets, TLC

\* ------------------------------------------------------------ bounds
\* Longest token the resolver is tried on, drawn from Alphabet.
MaxTokLen == 3
\* Longest list of operations a plan carries.
MaxPlanLen == 2

\* ------------------------------------------------------------ str
None == <<"None">>

LowerLetters ==
    <<"a", "b", "c", "d", "e", "f", "g", "h", "i", "j", "k", "l", "m",
      "n", "o", "p", "q", "r", "s", "t", "u", "v", "w", "x", "y", "z">>

UpperLetters ==
    <<"A", "B", "C", "D", "E", "F", "G", "H", "I", "J", "K", "L", "M",
      "N", "O", "P", "Q", "R", "S", "T", "U", "V", "W", "X", "Y", "Z">>

\* The strings are over the characters of Latin-1. Its letters beyond a-z
\* and A-Z: those that come in pairs of lower and upper case, and the rest.
LowerLatin1 ==
    <<"à", "á", "â", "ã", "ä", "å", "æ", "ç", "è", "é",
      "ê", "ë", "ì", "í", "î", "ï", "ð", "ñ", "ò", "ó",
      "ô", "õ", "ö", "ø", "ù", "ú", "û", "ü", "ý", "þ">>

UpperLatin1 ==
    <<"À", "Á", "Â", "Ã", "Ä", "Å", "Æ", "Ç", "È", "É",
      "Ê", "Ë", "Ì", "Í", "Î", "Ï", "Ð", "Ñ", "Ò", "Ó",
      "Ô", "Õ", "Ö", "Ø", "Ù", "Ú", "Û", "Ü", "Ý", "Þ">>

OtherLetters == {"ª", "µ", "º", "ß", "ÿ"}

Range(s) == {s[k] : k \in DOMAIN s}

\* [a-zA-Z] of a regular expression
IsAsciiLetter(c) == c \in Range(LowerLetters) \cup Range(UpperLetters)

\* str.isalpha() of one character
IsAlpha(c) ==
    \/ IsAsciiLetter(c)
    \/ c \in Range(LowerLatin1) \cup Range(UpperLatin1) \cup OtherLetters

\* str.isspace() of one character (re's \s as well): blank, \t, \n, \r,
\* \f, \x0b, \x1c to \x1f, \x85 and \xa0
IsSpace(c) ==
    c \in {"\t", "\n", "", "\f", "\r", "",
           "", "", "", " ", "", " "}

\* The letters with another case, lower and upper in the same order
LowerCased == LowerLetters \o LowerLatin1
UpperCased == UpperLetters \o UpperLatin1

\* str.lower() of one character
LowerChar(c) ==
    IF c \in Range(UpperCased)
    THEN LowerCased[CHOOSE k \in DOMAIN UpperCased : UpperCased[k] = c]
    ELSE c

\* str.upper() of one character whose upper case is one character of
\* Latin-1 (that of µ and of ÿ is not in Latin-1)
UpperChar(c) ==
    IF c \in Range(LowerCased)
    THEN UpperCased[CHOOSE k \in DOMAIN LowerCased : LowerCased[k] = c]
    ELSE c

\* str.lower(), str.upper(); the upper case of ß is SS
Lower(s) == [k \in DOMAIN s |-> LowerChar(s[k])]
RECURSIVE Upper(_)
Upper(s) ==
    IF s = <<>> THEN <<>>
    ELSE (IF Head(s) = "ß" THEN <<"S", "S">> ELSE <<UpperChar(Head(s))>>) \o Upper(Tail(s))

\* str.lstrip(), str.rstrip(), str.strip()
RECURSIVE LStrip(_)
LStrip(s) == IF s # <<>> /\ IsSpace(Head(s)) THEN LStrip(Tail(s)) ELSE s

RECURSIVE RStrip(_)
RStrip(s) ==
    IF s # <<>> /\ IsSpace(s[Len(s)]) THEN RStrip(SubSeq(s, 1, Len(s) - 1)) ELSE s

Strip(s) == RStrip(LStrip(s))

\* str.rstrip(c)
RECURSIVE RStripChar(_, _)
RStripChar(s, c) ==
    IF s # <<>> /\ s[Len(s)] = c THEN RStripChar(SubSeq(s, 1, Len(s) - 1), c) ELSE s

\* str.startswith(p), str.endswith(p)
StartsWith(s, p) == Len(p) <= Len(s) /\ SubSeq(s, 1, Len(p)) = p
EndsWith(s, p) == Len(p) <= Len(s) /\ SubSeq(s, Len(s) - Len(p) + 1, Len(s)) = p

\* `p in s` for two strs
IsSubstr(p, s) ==
    \E k \in 0..(Len(s) - Len(p)) : SubSeq(s, k + 1, k + Len(p)) = p

\* str.rfind(c) + 1: the position after the last c, 0 when there is none
RFind1(s, c) ==
    IF \E k \in DOMAIN s : s[k] = c
    THEN CHOOSE k \in DOMAIN s : s[k] = c /\ \A j \in DOMAIN s : s[j] = c => j <= k
    ELSE 0

\* str.split(c): the pieces between the occurrences of c, empty ones kept
RECURSIVE SplitAcc(_, _, _)
SplitAcc(s, c, cur) ==
    IF s = <<>> THEN <<cur>>
    ELSE IF Head(s) = c THEN <<cur>> \o SplitAcc(Tail(s), c, <<>>)
    ELSE SplitAcc(Tail(s), c, Append(cur, Head(s)))

Split(s, c) == SplitAcc(s, c, <<>>)

\* c.join(parts)
RECURSIVE JoinWith(_, _)
JoinWith(parts, c) ==
    IF parts = <<>> THEN <<>>
    ELSE IF Len(parts) = 1 THEN parts[1]
    ELSE parts[1] \o <<c>> \o JoinWith(Tail(parts), c)

\* str.split(): the maximal runs of non-whitespace characters
RECURSIVE WordsAcc(_, _)
WordsAcc(s, cur) ==
    IF s = <<>> THEN (IF cur = <<>> THEN <<>> ELSE <<cur>>)
    ELSE IF IsSpace(Head(s))
         THEN (IF cur = <<>> THEN <<>> ELSE <<cur>>) \o WordsAcc(Tail(s), <<>>)
         ELSE WordsAcc(Tail(s), Append(cur, Head(s)))

Words(s) == WordsAcc(s, <<>>)

\* Python truthiness of a str or None
Truthy(v) == v # None /\ v # <<>>

\* ------------------------------------------------------------ posixpath
Sep == "/"
Dot == <<".">>
DotDot == <<".", ".">>

\* os.path.isabs
IsAbs(p) == StartsWith(p, <<Sep>>)

\* os.path.join(a, b)
PathJoin(a, b) ==
    IF StartsWith(b, <<Sep>>) THEN b
    ELSE IF a = <<>> \/ EndsWith(a, <<Sep>>) THEN a \o b
    ELSE a \o <<Sep>> \o b

\* os.path.basename
Basename(p) == SubSeq(p, RFind1(p, Sep) + 1, Len(p))

\* os.path.split: the head without its trailing slashes, unless it is all slashes
SplitHead(head) ==
    IF head # <<>> /\ RStripChar(head, Sep) # <<>> THEN RStripChar(head, Sep) ELSE head

\* os.path.split, given i = p.rfind('/') + 1: <<head, tail>>
SplitAt(p, i) == <<SplitHead(SubSeq(p, 1, i)), SubSeq(p, i + 1, Len(p))>>

\* os.path.split: <<head, tail>>
PathSplit(p) == SplitAt(p, RFind1(p, Sep))

\* the component stack of os.path.normpath
RECURSIVE NormComps(_, _, _)
NormComps(comps, acc, rooted) ==
    IF comps = <<>> THEN acc
    ELSE LET c == Head(comps) IN
         IF c = <<>> \/ c = Dot THEN NormComps(Tail(comps), acc, rooted)
         ELSE IF c # DotDot \/ (~rooted /\ acc = <<>>)
                 \/ (acc # <<>> /\ acc[Len(acc)] = DotDot)
              THEN NormComps(Tail(comps), Append(acc, c), rooted)
         ELSE IF acc # <<>>
              THEN NormComps(Tail(comps), SubSeq(acc, 1, Len(acc) - 1), rooted)
         ELSE NormComps(Tail(comps), acc, rooted)

\* the leading slashes os.path.normpath keeps: two only when exactly two
LeadingSlashes(p) ==
    IF ~StartsWith(p, <<Sep>>) THEN 0
    ELSE IF StartsWith(p, <<Sep, Sep>>) /\ ~StartsWith(p, <<Sep, Sep, Sep>>) THEN 2
    ELSE 1

\* `path or dot`
OrDot(path) == IF path = <<>> THEN Dot ELSE path

\* os.path.normpath of a non-empty p that has `slashes` leading slashes to keep
NormFrom(p, slashes) ==
    OrDot([k \in 1..slashes |-> Sep]
          \o JoinWith(NormComps(Split(p, Sep), <<>>, slashes > 0), Sep))

\* os.path.normpath
NormPath(p) == IF p = <<>> THEN Dot ELSE NormFrom(p, LeadingSlashes(p))

\* ------------------------------------------------------------ filesystem
\* The process's working directory (relative paths are looked up from it) and the
\* user's home directory, as canonical paths and as a str.
PROC_CWD == << <<"w">> >>
HOME_DIR == <<"/", "h">>

DirNode == [kind |-> "dir", content |-> <<>>]
FileNode(c) == [kind |-> "file", content |-> c]

\* What a lookup yields instead of a canonical path: no such entry, or a
\* component of the way that is no directory.
NoEnt == << <<"ENOENT">> >>
NotDir == << <<"ENOTDIR">> >>

IsEntry(r) == r # NoEnt /\ r # NotDir

IsPrefix(a, b) == Len(a) <= Len(b) /\ SubSeq(b, 1, Len(a)) = a

\* path_resolution(7) without symbolic links: follow comps from cur
RECURSIVE Walk(_, _, _)
Walk(fs, cur, comps) ==
    IF ~IsEntry(cur) THEN cur
    ELSE IF cur \notin DOMAIN fs THEN NoEnt
    ELSE IF comps = <<>> THEN cur
    ELSE IF fs[cur].kind # "dir" THEN NotDir
    ELSE LET c == Head(comps) IN
         IF c = <<>> \/ c = Dot THEN Walk(fs, cur, Tail(comps))
         ELSE IF c = DotDot
              THEN Walk(fs, SubSeq(cur, 1, IF cur = <<>> THEN 0 ELSE Len(cur) - 1), Tail(comps))
         ELSE Walk(fs, Append(cur, c), Tail(comps))

StartDir(p) == IF IsAbs(p) THEN <<>> ELSE PROC_CWD

\* stat(p): the canonical path of the entry p names, NoEnt or NotDir
Lookup(fs, p) ==
    IF p = <<>> THEN NoEnt ELSE Walk(fs, StartDir(p), Split(p, Sep))

RECURSIVE DropTrailingEmpty(_)
DropTrailingEmpty(comps) ==
    IF comps # <<>> /\ comps[Len(comps)] = <<>>
    THEN DropTrailingEmpty(SubSeq(comps, 1, Len(comps) - 1))
    ELSE comps

\* Target, given the components of p without the trailing empty ones and the
\* number of components with them
TargetOf(fs, p, comps, all) ==
    [parent |-> IF comps = <<>> THEN NoEnt
                ELSE Walk(fs, StartDir(p), SubSeq(comps, 1, Len(comps) - 1)),
     name |-> IF comps = <<>> THEN <<>> ELSE comps[Len(comps)],
     trailing |-> Len(comps) < all]

\* The directory a new entry p would be made in, the name it would get, and
\* whether p ends in a separator.
Target(fs, p) ==
    TargetOf(fs, p, DropTrailingEmpty(Split(p, Sep)), Len(Split(p, Sep)))

\* errno of a failed walk to a parent directory
WalkError(r) == IF r = NotDir THEN "NotADirectoryError" ELSE "FileNotFoundError"

\* the kind of the entry a lookup found
KindAt(fs, at) == IF IsEntry(at) THEN fs[at].kind ELSE "none"

os_path_exists(fs, p) == IsEntry(Lookup(fs, p))
os_path_isdir(fs, p) == KindAt(fs, Lookup(fs, p)) = "dir"
os_path_isfile(fs, p) == KindAt(fs, Lookup(fs, p)) = "file"

\* the canonical paths of the entries directly in directory d
Children(fs, d) == {q \in DOMAIN fs : Len(q) = Len(d) + 1 /\ IsPrefix(d, q)}

\* d and everything below it
Subtree(fs, d) == {q \in DOMAIN fs : IsPrefix(d, q)}

\* os.listdir(p), as the set of names
os_listdir(fs, p) == {q[Len(q)] : q \in Children(fs, Lookup(fs, p))}

Ok(fs) == [err |-> "ok", fs |-> fs]
Fail(e, fs) == [err |-> e, fs |-> fs]

Put(fs, q, node) == [x \in DOMAIN fs \cup {q} |-> IF x = q THEN node ELSE fs[x]]

\* os.mkdir of a non-empty path with target t
MkdirAt(fs, t) ==
    IF t.name = <<>> THEN Fail("FileExistsError", fs)
    ELSE IF ~IsEntry(t.parent) THEN Fail(WalkError(t.parent), fs)
    ELSE IF fs[t.parent].kind # "dir" THEN Fail("NotADirectoryError", fs)
    ELSE IF t.name = Dot \/ t.name = DotDot \/ Append(t.parent, t.name) \in DOMAIN fs
         THEN Fail("FileExistsError", fs)
    ELSE Ok(Put(fs, Append(t.parent, t.name), DirNode))

\* os.mkdir(p)
os_mkdir(fs, p) ==
    IF p = <<>> THEN Fail("FileNotFoundError", fs) ELSE MkdirAt(fs, Target(fs, p))

RECURSIVE os_makedirs(_, _)
\* os.makedirs after makedirs(head) has returned or raised `sub`
MakedirsAfter(sub, name, tail) ==
    IF sub.err \notin {"ok", "FileExistsError"} THEN sub
    ELSE IF tail = Dot THEN Ok(sub.fs)
    ELSE os_mkdir(sub.fs, name)

\* os.makedirs, given <<head, tail>>
MakedirsFrom(fs, name, ht) ==
    IF ht[1] # <<>> /\ ht[2] # <<>> /\ ~os_path_exists(fs, ht[1])
    THEN MakedirsAfter(os_makedirs(fs, ht[1]), name, ht[2])
    ELSE os_mkdir(fs, name)

\* `if not tail: head, tail = path.split(head)`
SplitAgain(ht) == IF ht[2] = <<>> THEN PathSplit(ht[1]) ELSE ht

\* os.makedirs(name), exist_ok = False
os_makedirs(fs, name) == MakedirsFrom(fs, name, SplitAgain(PathSplit(name)))

\* open(p, 'w') and write of a non-empty path with target t
WriteAt(fs, t, content) ==
    IF t.name = <<>> THEN Fail("IsADirectoryError", fs)
    ELSE IF ~IsEntry(t.parent) THEN Fail(WalkError(t.parent), fs)
    ELSE IF fs[t.parent].kind # "dir" THEN Fail("NotADirectoryError", fs)
    ELSE IF t.trailing \/ t.name = Dot \/ t.name = DotDot
         THEN Fail("IsADirectoryError", fs)
    ELSE IF Append(t.parent, t.name) \in DOMAIN fs /\ fs[Append(t.parent, t.name)].kind = "dir"
         THEN Fail("IsADirectoryError", fs)
    ELSE Ok(Put(fs, Append(t.parent, t.name), FileNode(content)))

\* open(p, 'w'), f.write(content), close
open_w(fs, p, content) ==
    IF p = <<>> THEN Fail("FileNotFoundError", fs) ELSE WriteAt(fs, Target(fs, p), content)

\* The entries of fs with the subtree at `from` relocated to `to`, replacing
\* whatever was at `to`.
Relocate(fs, from, to) ==
    LET moved == Subtree(fs, from)
        gone == moved \cup Subtree(fs, to)
        new(q) == to \o SubSeq(q, Len(from) + 1, Len(q))
        kept == DOMAIN fs \ gone
    IN  [x \in kept \cup {new(q) : q \in moved} |->
            IF x \in kept THEN fs[x]
            ELSE fs[CHOOSE q \in moved : new(q) = x]]

\* rename(2) of the entry src, whose path ends in the name oldname, to the
\* target tn, which is the canonical path `at`
RenameAt(fs, src, oldname, tn, at) ==
    IF ~IsEntry(src) THEN Fail(WalkError(src), fs)
    ELSE IF tn.name = <<>> THEN Fail("OSError", fs)
    ELSE IF ~IsEntry(tn.parent) THEN Fail(WalkError(tn.parent), fs)
    ELSE IF fs[tn.parent].kind # "dir" THEN Fail("NotADirectoryError", fs)
    ELSE IF oldname \in {<<>>, Dot, DotDot} \/ tn.name \in {Dot, DotDot}
         THEN Fail("OSError", fs)
    ELSE IF fs[src].kind = "file" /\ tn.trailing THEN Fail("NotADirectoryError", fs)
    ELSE IF at \in DOMAIN fs
         THEN IF at = src THEN Ok(fs)
              ELSE IF fs[src].kind = "file"
                   THEN IF fs[at].kind = "dir" THEN Fail("IsADirectoryError", fs)
                        ELSE Ok(Relocate(fs, src, at))
              ELSE IF IsPrefix(src, at) THEN Fail("OSError", fs)
              ELSE IF fs[at].kind = "file" THEN Fail("NotADirectoryError", fs)
              ELSE IF Children(fs, at) # {} THEN Fail("OSError", fs)
              ELSE Ok(Relocate(fs, src, at))
    ELSE IF IsPrefix(src, at) THEN Fail("OSError", fs)
    ELSE Ok(Relocate(fs, src, at))

\* the canonical path a target stands for
TargetPath(t) == IF IsEntry(t.parent) THEN Append(t.parent, t.name) ELSE t.parent

\* rename(2) to the target tn
RenameTo(fs, old, tn) ==
    RenameAt(fs, Lookup(fs, old), Target(fs, old).name, tn, TargetPath(tn))

\* rename(2)
os_rename(fs, old, new) ==
    IF old = <<>> \/ new = <<>> THEN Fail("FileNotFoundError", fs)
    ELSE RenameTo(fs, old, Target(fs, new))

\* ------------------------------------------------------------ locations
DESKTOP_DIR == PathJoin(HOME_DIR, <<"D", "e", "s", "k", "t", "o", "p">>)
DOWNLOADS_DIR == PathJoin(HOME_DIR, <<"D", "o", "w", "n", "l", "o", "a", "d", "s">>)
DOCUMENTS_DIR == PathJoin(HOME_DIR, <<"D", "o", "c", "u", "m", "e", "n", "t", "s">>)
PICTURES_DIR == PathJoin(HOME_DIR, <<"P", "i", "c", "t", "u", "r", "e", "s">>)
MUSIC_DIR == PathJoin(HOME_DIR, <<"M", "u", "s", "i", "c">>)
VIDEOS_DIR == PathJoin(HOME_DIR, <<"V", "i", "d", "e", "o", "s">>)
MOVIES_DIR == PathJoin(HOME_DIR, <<"M", "o", "v", "i", "e", "s">>)

\* The mapping of common locations (no drive letters: os.name is 'posix').
COMMON_LOCATIONS ==
    (<<"h", "o", "m", "e">> :> HOME_DIR)
    @@ (<<"d", "e", "s", "k", "t", "o", "p">> :> DESKTOP_DIR)
    @@ (<<"d", "o", "w", "n", "l", "o", "a", "d", "s">> :> DOWNLOADS_DIR)
    @@ (<<"d", "o", "c", "u", "m", "e", "n", "t", "s">> :> DOCUMENTS_DIR)
    @@ (<<"p", "i", "c", "t", "u", "r", "e", "s">> :> PICTURES_DIR)
    @@ (<<"m", "u", "s", "i", "c">> :> MUSIC_DIR)
    @@ (<<"v", "i", "d", "e", "o", "s">> :> VIDEOS_DIR)
    @@ (<<"m", "o", "v", "i", "e", "s">> :> MOVIES_DIR)
    @@ (<<"d", "o", "c", "s">> :> DOCUMENTS_DIR)
    @@ (<<"m", "y", " ", "d", "o", "c", "u", "m", "e", "n", "t", "s">> :> DOCUMENTS_DIR)
    @@ (<<"m", "y", " ", "d", "e", "s", "k", "t", "o", "p">> :> DESKTOP_DIR)
    @@ (<<"m", "y", " ", "d", "o", "w", "n", "l", "o", "a", "d", "s">> :> DOWNLOADS_DIR)
    @@ (<<"p", "i", "c", "s">> :> PICTURES_DIR)
    @@ (<<"p", "h", "o", "t", "o", "s">> :> PICTURES_DIR)

\* shutil._basename
ShBasename(p) == Basename(RStripChar(p, Sep))

\* os.path.abspath
AbsPath(p) == NormPath(PathJoin(<<Sep>> \o JoinWith(PROC_CWD, Sep), p))

\* p with a separator at its end
WithSep(p) == IF EndsWith(p, <<Sep>>) THEN p ELSE p \o <<Sep>>

\* shutil._destinsrc
DestInSrc(src, dst) == StartsWith(WithSep(AbsPath(dst)), WithSep(AbsPath(src)))

\* fs with a copy of the subtree at `from` placed at `to`
CopyTree(fs, from, to) ==
    LET moved == Subtree(fs, from)
        new(q) == to \o SubSeq(q, Len(from) + 1, Len(q))
    IN  [x \in DOMAIN fs \cup {new(q) : q \in moved} |->
            IF x \in {new(q) : q \in moved}
            THEN fs[CHOOSE q \in moved : new(q) = x]
            ELSE fs[x]]

Remove(fs, gone) == [x \in DOMAIN fs \ gone |-> fs[x]]

\* shutil.rmtree(src) after the copy: what is in the directory goes, and the
\* final os.rmdir(src) fails when src names the directory by '.' or as the
\* root, and finds nothing when src names it by '..' of a directory that
\* has just gone with the rest
RmTree(copied, s, name) ==
    IF name = DotDot
    THEN Fail("FileNotFoundError", Remove(copied, Subtree(copied, s) \ {s}))
    ELSE IF name \in {<<>>, Dot}
         THEN Fail("OSError", Remove(copied, Subtree(copied, s) \ {s}))
    ELSE Ok(Remove(copied, Subtree(copied, s)))

\* shutil.copytree(src, real_dst), whose os.makedirs gave `made`, then rmtree
CopyTreeThenRm(made, real_dst, s, name) ==
    IF made.err # "ok" THEN made
    ELSE RmTree(CopyTree(made.fs, s, Lookup(made.fs, real_dst)), s, name)

\* shutil._samefile
SameFile(fs, src, dst) == IsEntry(Lookup(fs, src)) /\ Lookup(fs, src) = Lookup(fs, dst)

\* shutil.copyfile after open(dst, 'wb') has given `wrote`: an
\* IsADirectoryError for a dst that does not exist is raised as
\* FileNotFoundError
CopyFileOpened(wrote, fs, dst) ==
    IF wrote.err = "IsADirectoryError" /\ ~os_path_exists(fs, dst)
    THEN Fail("FileNotFoundError", fs)
    ELSE wrote

\* shutil.copyfile(src, dst) of the file s
shutil_copyfile(fs, src, dst, s) ==
    IF SameFile(fs, src, dst) THEN Fail("shutil.Error", fs)
    ELSE CopyFileOpened(open_w(fs, dst, fs[s].content), fs, dst)

\* shutil.copy2(src, dst) of the file s: into dst when dst is a directory
shutil_copy2(fs, src, dst, s) ==
    shutil_copyfile(fs, src,
                    IF os_path_isdir(fs, dst) THEN PathJoin(dst, Basename(src)) ELSE dst, s)

\* os.unlink(src) after copy2 has given `wrote`
UnlinkAfter(wrote, s) ==
    IF wrote.err # "ok" THEN wrote ELSE Ok(Remove(wrote.fs, {s}))

\* The except-OSError branch of shutil.move for the entry s
MoveByCopyOf(fs, src, dst, real_dst, s) ==
    IF ~IsEntry(s) THEN Fail(WalkError(s), fs)
    ELSE IF fs[s].kind = "dir"
         THEN IF DestInSrc(src, dst) THEN Fail("shutil.Error", fs)
              ELSE CopyTreeThenRm(os_makedirs(fs, real_dst), real_dst, s,
                                  Target(fs, src).name)
    ELSE IF Target(fs, src).trailing THEN Fail("NotADirectoryError", fs)
    ELSE UnlinkAfter(shutil_copy2(fs, src, real_dst, s), s)

\* The except-OSError branch of shutil.move: copy, then delete the source.
MoveByCopy(fs, src, dst, real_dst) ==
    MoveByCopyOf(fs, src, dst, real_dst, Lookup(fs, src))

\* shutil.move after os.rename(src, real_dst) has returned or raised `renamed`
RenamedOrCopied(renamed, fs, src, dst, real_dst) ==
    IF renamed.err = "ok" THEN renamed ELSE MoveByCopy(fs, src, dst, real_dst)

\* shutil.move from `try: os.rename(src, real_dst)` on
MoveTo(fs, src, dst, real_dst) ==
    RenamedOrCopied(os_rename(fs, src, real_dst), fs, src, dst, real_dst)

\* shutil.move into the directory dst, as real_dst
MoveInto(fs, src, dst, real_dst) ==
    IF os_path_exists(fs, real_dst) THEN Fail("shutil.Error", fs)
    ELSE MoveTo(fs, src, dst, real_dst)

\* shutil.move(src, dst)
shutil_move(fs, src, dst) ==
    IF os_path_isdir(fs, dst)
    THEN IF SameFile(fs, src, dst) THEN os_rename(fs, src, dst)
         ELSE MoveInto(fs, src, dst, PathJoin(dst, ShBasename(src)))
    ELSE MoveTo(fs, src, dst, dst)

\* ------------------------------------------------------------ FileOperations
NoMatch == <<"NoMatch">>

DriveWord == <<"d", "r", "i", "v", "e">>

\* What may follow the drive letter: [:\s]? and then $
DriveTail(t) ==
    \/ t = <<>>
    \/ t = <<"\n">>
    \/ Len(t) = 1 /\ (t[1] = ":" \/ IsSpace(t[1]))
    \/ Len(t) = 2 /\ (t[1] = ":" \/ IsSpace(t[1])) /\ t[2] = "\n"

\* re.match(r"^(?:drive\s+)?([a-zA-Z])[:\s]?$", path): group 1, or NoMatch
DriveMatch(path) ==
    LET bare == path # <<>> /\ IsAsciiLetter(path[1]) /\ DriveTail(Tail(path))
        rest == LStrip(SubSeq(path, Len(DriveWord) + 1, Len(path)))
        worded == /\ StartsWith(path, DriveWord)
                  /\ Len(path) > Len(DriveWord)
                  /\ IsSpace(path[Len(DriveWord) + 1])
                  /\ rest # <<>> /\ IsAsciiLetter(rest[1]) /\ DriveTail(Tail(rest))
    IN  IF bare THEN <<path[1]>>
        ELSE IF worded THEN <<rest[1]>>
        ELSE NoMatch

\* drive_path
DrivePath(m) == Upper(m) \o <<":", "\\">>

\* `if drive_match:` and `if os.path.exists(drive_path):`
DriveExists(fs, m) == m # NoMatch /\ os_path_exists(fs, DrivePath(m))

\* resolve_path from the alias rule on, looking the path up as it is spelled
resolve_stripped_exact_key(fs, cur, path) ==
    IF IsAbs(path) THEN path
    ELSE IF path \in DOMAIN COMMON_LOCATIONS THEN COMMON_LOCATIONS[path]
    ELSE IF DriveExists(fs, DriveMatch(path)) THEN DrivePath(DriveMatch(path))
    ELSE IF Len(path) > 1 /\ IsAlpha(path[1]) /\ path[2] = ":" THEN path
    ELSE NormPath(PathJoin(cur, path))

\* resolve_path after the strip with the test for a letter and a colon put
\* before the drive reference
resolve_stripped_prefix_first(fs, cur, path) ==
    IF IsAbs(path) THEN path
    ELSE IF Lower(path) \in DOMAIN COMMON_LOCATIONS THEN COMMON_LOCATIONS[Lower(path)]
    ELSE IF Len(path) > 1 /\ IsAlpha(path[1]) /\ path[2] = ":" THEN path
    ELSE IF DriveExists(fs, DriveMatch(path)) THEN DrivePath(DriveMatch(path))
    ELSE NormPath(PathJoin(cur, path))

\* FileOperations.resolve_path after path = path.strip()
resolve_stripped(fs, cur, path) ==
    IF IsAbs(path) THEN path
    ELSE IF Lower(path) \in DOMAIN COMMON_LOCATIONS THEN COMMON_LOCATIONS[Lower(path)]
    ELSE IF DriveExists(fs, DriveMatch(path)) THEN DrivePath(DriveMatch(path))
    ELSE IF Len(path) > 1 /\ IsAlpha(path[1]) /\ path[2] = ":" THEN path
    ELSE NormPath(PathJoin(cur, path))

\* FileOperations.resolve_path, with self.current_path = cur
resolve_path(fs, cur, token) ==
    IF ~Truthy(token) THEN cur ELSE resolve_stripped(fs, cur, Strip(token))

\* self.video_extensions
video_extensions ==
    {<<".", "m", "p", "4">>,
     <<".", "m", "k", "v">>,
     <<".", "a", "v", "i">>,
     <<".", "m", "o", "v">>,
     <<".", "w", "m", "v">>,
     <<".", "f", "l", "v">>,
     <<".", "w", "e", "b", "m">>,
     <<".", "m", "4", "v">>,
     <<".", "m", "p", "g">>,
     <<".", "m", "p", "e", "g">>,
     <<".", "3", "g", "p">>,
     <<".", "3", "g", "2">>,
     <<".", "m", "2", "t", "s">>}

\* What a handler hands back: the message it returns and the filesystem it
\* leaves, or the exception it lets escape.  A message is its fixed text and
\* the values formatted into it.
\* `console` is what the handler itself printed on the console before that.
Msg(text, a, b, n, k) == [text |-> text, a |-> a, b |-> b, n |-> n, k |-> k]
Ret(text, a, fs) ==
    [raised |-> FALSE, msg |-> Msg(text, a, <<>>, 0, 0), fs |-> fs, console |-> <<>>]
Ret2(text, a, b, n, k, fs) ==
    [raised |-> FALSE, msg |-> Msg(text, a, b, n, k), fs |-> fs, console |-> <<>>]
Raise(exc, fs) ==
    [raised |-> TRUE, msg |-> Msg("raise", <<exc>>, <<>>, 0, 0), fs |-> fs, console |-> <<>>]

\* One console.print: what kind of line it is, the step number if it has
\* one, the message, and the rows if it is a table.
Line(tag, i, msg) == [tag |-> tag, i |-> i, msg |-> msg, rows |-> <<>>]

\* The end of a handler's try block: the call returned or raised `done`
Finish(done, text, a, b, errtext) ==
    IF done.err = "ok" THEN Ret2(text, a, b, 0, 0, done.fs)
    ELSE Ret(errtext, <<done.err>>, done.fs)

\* base_path of create_folder, create_file and rename_item
BasePath(fs, cur, location) ==
    IF Truthy(location) THEN resolve_path(fs, cur, location) ELSE cur

\* The try block of create_folder going to os.makedirs without looking
\* whether folder_path exists
create_folder_at_unchecked(fs, folder_path) ==
    Finish(os_makedirs(fs, folder_path), "Created folder: {a}", folder_path, <<>>,
           "Error creating folder: {a}")

\* The try block of create_folder
create_folder_at(fs, folder_path) ==
    IF os_path_exists(fs, folder_path)
    THEN Ret("Folder already exists: {a}", folder_path, fs)
    ELSE Finish(os_makedirs(fs, folder_path), "Created folder: {a}", folder_path, <<>>,
                "Error creating folder: {a}")

\* FileOperations.create_folder
create_folder(fs, cur, folder_name, location) ==
    IF folder_name = None THEN Raise("AttributeError", fs)
    ELSE create_folder_at(fs, PathJoin(BasePath(fs, cur, location), Strip(folder_name)))

\* The try block of create_file going to open() without looking whether
\* file_path exists
create_file_at_unchecked(fs, file_path, content) ==
    Finish(open_w(fs, file_path, IF Truthy(content) THEN content ELSE <<>>),
           "Created file: {a}", file_path, <<>>, "Error creating file: {a}")

\* The try block of create_file
create_file_at(fs, file_path, content) ==
    IF os_path_exists(fs, file_path)
    THEN Ret("File already exists: {a}", file_path, fs)
    ELSE Finish(open_w(fs, file_path, IF Truthy(content) THEN content ELSE <<>>),
                "Created file: {a}", file_path, <<>>, "Error creating file: {a}")

\* create_file without its look at whether file_path exists: open(file_path,
\* 'w') truncates what is there
create_file_truncating(fs, cur, file_name, location, content) ==
    IF file_name = None THEN Raise("AttributeError", fs)
    ELSE create_file_at_unchecked(fs, PathJoin(BasePath(fs, cur, location),
                                               Strip(file_name)), content)

\* FileOperations.create_file
create_file(fs, cur, file_name, location, content) ==
    IF file_name = None THEN Raise("AttributeError", fs)
    ELSE create_file_at(fs, PathJoin(BasePath(fs, cur, location), Strip(file_name)),
                        content)

\* The try block of rename_item going to os.rename without looking whether
\* new_path exists
rename_item_at_overwriting(fs, old_path, new_path) ==
    IF ~os_path_exists(fs, old_path)
    THEN Ret("Source does not exist: {a}", old_path, fs)
    ELSE Finish(os_rename(fs, old_path, new_path), "Renamed from {a} to {b}",
                old_path, new_path, "Error renaming item: {a}")

\* The try block of rename_item
rename_item_at(fs, old_path, new_path) ==
    IF ~os_path_exists(fs, old_path)
    THEN Ret("Source does not exist: {a}", old_path, fs)
    ELSE IF os_path_exists(fs, new_path)
         THEN Ret("Destination already exists: {a}", new_path, fs)
    ELSE Finish(os_rename(fs, old_path, new_path), "Renamed from {a} to {b}",
                old_path, new_path, "Error renaming item: {a}")

\* FileOperations.rename_item
rename_item(fs, cur, old_name, new_name, location) ==
    IF old_name = None \/ new_name = None THEN Raise("TypeError", fs)
    ELSE rename_item_at(fs, PathJoin(BasePath(fs, cur, location), old_name),
                        PathJoin(BasePath(fs, cur, location), new_name))

\* move_item from the source check on, going to shutil.move without looking
\* whether dest_path exists
move_item_at_overwriting(fs, source_path, dest_path) ==
    IF ~os_path_exists(fs, source_path)
    THEN Ret("Source does not exist: {a}", source_path, fs)
    ELSE Finish(shutil_move(fs, source_path, dest_path), "Moved from {a} to {b}",
                source_path, dest_path, "Error moving item: {a}")

\* move_item from the source check on; dest_path is the adjusted one
move_item_at(fs, source_path, dest_path) ==
    IF ~os_path_exists(fs, source_path)
    THEN Ret("Source does not exist: {a}", source_path, fs)
    ELSE IF os_path_exists(fs, dest_path)
         THEN Ret("Destination already exists: {a}", dest_path, fs)
    ELSE Finish(shutil_move(fs, source_path, dest_path), "Moved from {a} to {b}",
                source_path, dest_path, "Error moving item: {a}")

\* `if os.path.isdir(dest_path): dest_path = os.path.join(dest_path,
\* os.path.basename(source_path))`
IntoDir(fs, source_path, dest_path) ==
    IF os_path_isdir(fs, dest_path)
    THEN PathJoin(dest_path, Basename(source_path))
    ELSE dest_path

\* FileOperations.move_item
move_item(fs, cur, source, destination) ==
    move_item_at(fs, resolve_path(fs, cur, source),
                 IntoDir(fs, resolve_path(fs, cur, source),
                         resolve_path(fs, cur, destination)))

RECURSIVE MoveLoop(_, _, _, _, _, _, _, _)
\* The loop after shutil.move of files[i] has returned or raised `mv`
MoveNext(mv, files, i, source_path, dest_path, moved_files, skipped_files, fail) ==
    IF mv.err # "ok"
    THEN [err |-> mv.err, fs |-> mv.fs, moved |-> moved_files, skipped |-> skipped_files]
    ELSE MoveLoop(mv.fs, files, i + 1, source_path, dest_path,
                  moved_files + 1, skipped_files, fail)

\* The for loop of move_all_files without the test for an existing dest_file
MoveLoop_overwriting(fs, files, i, source_path, dest_path, moved_files, skipped_files, fail) ==
    IF i > Len(files)
    THEN [err |-> "ok", fs |-> fs, moved |-> moved_files, skipped |-> skipped_files]
    ELSE IF i = fail
         THEN [err |-> "OSError", fs |-> fs,
               moved |-> moved_files, skipped |-> skipped_files]
    ELSE MoveNext(shutil_move(fs, PathJoin(source_path, files[i]),
                              PathJoin(dest_path, files[i])),
                  files, i, source_path, dest_path, moved_files, skipped_files, fail)

\* The for loop of move_all_files over files[i..]; the shutil.move of the
\* fail-th file of the list raises an I/O error (fail = 0: none does).
MoveLoop(fs, files, i, source_path, dest_path, moved_files, skipped_files, fail) ==
    IF i > Len(files)
    THEN [err |-> "ok", fs |-> fs, moved |-> moved_files, skipped |-> skipped_files]
    ELSE IF os_path_exists(fs, PathJoin(dest_path, files[i]))
         THEN MoveLoop(fs, files, i + 1, source_path, dest_path,
                       moved_files, skipped_files + 1, fail)
    ELSE IF i = fail
         THEN [err |-> "OSError", fs |-> fs,
               moved |-> moved_files, skipped |-> skipped_files]
    ELSE MoveNext(shutil_move(fs, PathJoin(source_path, files[i]),
                              PathJoin(dest_path, files[i])),
                  files, i, source_path, dest_path, moved_files, skipped_files, fail)

\* The names os.listdir(p) gives, without the test for a regular file
FilesIn_all(fs, p) == os_listdir(fs, p)

\* The names os.listdir(p) gives that are regular files
FilesIn(fs, p) == {f \in os_listdir(fs, p) : os_path_isfile(fs, PathJoin(p, f))}

\* The two forms of the result of move_all_files
MovedText == "Moved {n} files from {a} to {b}"
MovedSkippedText ==
    "Moved {n} files from {a} to {b}\nSkipped {k} files that already exist in the destination."

\* move_all_files after the loop has ended or raised as `done`
MovedResult(done, source_path, dest_path) ==
    IF done.err # "ok" THEN Ret("Error moving files: {a}", <<done.err>>, done.fs)
    ELSE IF done.skipped > 0
         THEN Ret2(MovedSkippedText, source_path, dest_path, done.moved, done.skipped, done.fs)
    ELSE Ret2(MovedText, source_path, dest_path, done.moved, 0, done.fs)

\* move_all_files undoing the moves it has made when one raises
move_all_files_at_atomic(fs, source_path, dest_path, files_to_move, fail) ==
    IF ~os_path_exists(fs, source_path)
    THEN Ret("Source directory does not exist: {a}", source_path, fs)
    ELSE IF ~os_path_isdir(fs, source_path)
         THEN Ret("Source is not a directory: {a}", source_path, fs)
    ELSE IF ~os_path_exists(fs, dest_path)
         THEN Ret("Destination directory does not exist: {a}", dest_path, fs)
    ELSE IF ~os_path_isdir(fs, dest_path)
         THEN Ret("Destination is not a directory: {a}", dest_path, fs)
    ELSE IF files_to_move = <<>>
         THEN Ret("No files found in the source directory: {a}", source_path, fs)
    ELSE LET done == MoveLoop(fs, files_to_move, 1, source_path, dest_path, 0, 0, fail)
         IN  MovedResult(IF done.err # "ok" THEN [done EXCEPT !.fs = fs] ELSE done,
                         source_path, dest_path)

\* move_all_files from the checks of the resolved paths on
move_all_files_at(fs, source_path, dest_path, files_to_move, fail) ==
    IF ~os_path_exists(fs, source_path)
    THEN Ret("Source directory does not exist: {a}", source_path, fs)
    ELSE IF ~os_path_isdir(fs, source_path)
         THEN Ret("Source is not a directory: {a}", source_path, fs)
    ELSE IF ~os_path_exists(fs, dest_path)
         THEN Ret("Destination directory does not exist: {a}", dest_path, fs)
    ELSE IF ~os_path_isdir(fs, dest_path)
         THEN Ret("Destination is not a directory: {a}", dest_path, fs)
    ELSE IF files_to_move = <<>>
         THEN Ret("No files found in the source directory: {a}", source_path, fs)
    ELSE MovedResult(MoveLoop(fs, files_to_move, 1, source_path, dest_path, 0, 0, fail),
                     source_path, dest_path)

\* FileOperations.move_all_files; files_to_move is the list the directory
\* listing gave, in the order it gave it.
move_all_files(fs, cur, source_dir, destination_dir, files_to_move, fail) ==
    move_all_files_at(fs, resolve_path(fs, cur, source_dir),
                      resolve_path(fs, cur, destination_dir), files_to_move, fail)

\* The try block of open_file_explorer
open_file_explorer_at(fs, path_to_open, launched) ==
    IF ~os_path_exists(fs, path_to_open)
    THEN Ret("Location does not exist: {a}", path_to_open, fs)
    ELSE IF ~launched THEN Ret("Error opening file explorer: {a}", <<"FileNotFoundError">>, fs)
    ELSE Ret("Opened file explorer at: {a}", path_to_open, fs)

\* FileOperations.open_file_explorer; launched is whether subprocess.Popen
\* started the file manager
open_file_explorer(fs, cur, location, launched) ==
    open_file_explorer_at(fs, BasePath(fs, cur, location), launched)

\* The names os.listdir(p) gives that are directories
DirsIn(fs, p) == {d \in os_listdir(fs, p) : os_path_isdir(fs, PathJoin(p, d))}

\* The orders a directory listing can give the names of S in
Orders(S) == {o \in [1..Cardinality(S) -> S] : Range(o) = S}

\* What os.walk(top) can yield, top-down: for top and then for each directory
\* below it, in the order of its listing, the directory and the names in it
\* that are not directories, in the order of its listing.  Nothing is
\* yielded for a top that is not a directory.
RECURSIVE Walks(_, _), WalksOfDirs(_, _, _)
WalksOfDirs(fs, root, dirs) ==
    IF dirs = <<>> THEN {<<>>}
    ELSE {w \o v : w \in Walks(fs, PathJoin(root, Head(dirs))),
                   v \in WalksOfDirs(fs, root, Tail(dirs))}

Walks(fs, top) ==
    IF ~os_path_isdir(fs, top) THEN {<<>>}
    ELSE UNION {{<<[root |-> top, files |-> files]>> \o w : w \in WalksOfDirs(fs, top, dirs)} :
                  files \in Orders(FilesIn(fs, top)), dirs \in Orders(DirsIn(fs, top))}

\* The regular files os.walk(p) comes by: those below directory p
WalkFiles(fs, p) ==
    IF os_path_isdir(fs, p)
    THEN {q \in Subtree(fs, Lookup(fs, p)) : fs[q].kind = "file"}
    ELSE {}

\* max_files of search_files
max_files == 10

\* found_files, and how many files the loop has looked at
Found(found, seen) == [found |-> found, seen |-> seen]

\* `for file in files` of search_files without its break
RECURSIVE SearchFiles_unbroken(_, _, _, _, _)
SearchFiles_unbroken(root, files, j, search_term, sofar) ==
    IF j > Len(files) THEN sofar
    ELSE SearchFiles_unbroken(root, files, j + 1, search_term,
            Found(IF IsSubstr(Lower(search_term), Lower(files[j]))
                  THEN Append(sofar.found, PathJoin(root, files[j]))
                  ELSE sofar.found,
                  sofar.seen + 1))

\* `for file in files` of search_files, from files[j] on
RECURSIVE SearchFiles(_, _, _, _, _)
SearchFiles(root, files, j, search_term, sofar) ==
    IF j > Len(files) THEN sofar
    ELSE IF ~IsSubstr(Lower(search_term), Lower(files[j]))
         THEN SearchFiles(root, files, j + 1, search_term,
                          Found(sofar.found, sofar.seen + 1))
    ELSE IF Len(sofar.found) + 1 >= max_files
         THEN Found(Append(sofar.found, PathJoin(root, files[j])), sofar.seen + 1)
    ELSE SearchFiles(root, files, j + 1, search_term,
                     Found(Append(sofar.found, PathJoin(root, files[j])), sofar.seen + 1))

\* `for root, _, files in os.walk(base_path)` of search_files, from walk[i] on
RECURSIVE SearchDirs(_, _, _, _)
SearchDirs(walk, i, search_term, sofar) ==
    IF i > Len(walk) \/ Len(sofar.found) >= max_files THEN sofar
    ELSE SearchDirs(walk, i + 1, search_term,
                    SearchFiles(walk[i].root, walk[i].files, 1, search_term, sofar))

\* The table of search_files: its title and, for each found file, the row
\* of its number, os.path.basename and os.path.dirname
SearchTable(search_term, found_files) ==
    [tag |-> "Table", i |-> 0,
     msg |-> Msg("Search Results for '{a}'", search_term, <<>>, 0, 0),
     rows |-> [k \in 1..Len(found_files) |->
                 <<k, Basename(found_files[k]), PathSplit(found_files[k])[1]>>]]

\* search_files after the walk has left `found_files`: the table is printed
\* before the handler returns
search_files_found(fs, search_term, base_path, found_files) ==
    IF found_files = <<>>
    THEN Ret2("No files found containing '{a}' in {b}", search_term, base_path, 0, 0, fs)
    ELSE [raised |-> FALSE,
          msg |-> Msg("Found {n} files containing '{a}'", search_term, <<>>, Len(found_files), 0),
          fs |-> fs,
          console |-> <<SearchTable(search_term, found_files)>>]

\* search_files from the check of base_path on
search_files_at(fs, search_term, base_path, walk) ==
    IF ~os_path_exists(fs, base_path)
    THEN Ret("Search location does not exist: {a}", base_path, fs)
    ELSE search_files_found(fs, search_term, base_path,
            SearchDirs(walk, 1, search_term, Found(<<>>, 0)).found)

\* FileOperations.search_files; walk is what os.walk(base_path) yields
search_files(fs, cur, search_term, search_path, walk) ==
    IF ~Truthy(search_term) THEN Ret("No search term specified.", <<>>, fs)
    ELSE search_files_at(fs, search_term, BasePath(fs, cur, search_path), walk)

\* found_files of that call when it returns, with the number of files looked at
search_files_loop(fs, cur, search_term, search_path, walk) ==
    IF Truthy(search_term) /\ os_path_exists(fs, BasePath(fs, cur, search_path))
    THEN SearchDirs(walk, 1, search_term, Found(<<>>, 0))
    ELSE Found(<<>>, 0)

\* the 10 points of each word of the query found in the file name, a word
\* counting once however often the query has it
WordScore_distinct(movie_words, file_lower) ==
    10 * Cardinality({w \in Range(movie_words) : IsSubstr(w, file_lower)})

\* the 10 points of each word of the query found in the file name
RECURSIVE WordScore(_, _)
WordScore(movie_words, file_lower) ==
    IF movie_words = <<>> THEN 0
    ELSE (IF IsSubstr(Head(movie_words), file_lower) THEN 10 ELSE 0)
         + WordScore(Tail(movie_words), file_lower)

\* the match score of file_lower for movie_lower
ScoreLower(movie_lower, file_lower) ==
    (IF IsSubstr(movie_lower, file_lower) THEN 50 ELSE 0)
    + WordScore(Words(movie_lower), file_lower)

\* the match score play_movie gives a file name
Score(movie_name, file) == ScoreLower(Lower(movie_name), Lower(file))

IsVideo(file) == \E ext \in video_extensions : EndsWith(Lower(file), ext)

\* `for file in files` of play_movie, from files[j] on: found_movies grows
\* by the video files that score above 0
RECURSIVE MovieFiles(_, _, _, _, _)
MovieFiles(root, files, j, movie_name, found_movies) ==
    IF j > Len(files) THEN found_movies
    ELSE MovieFiles(root, files, j + 1, movie_name,
            IF IsVideo(files[j]) /\ Score(movie_name, files[j]) > 0
            THEN Append(found_movies, <<PathJoin(root, files[j]), Score(movie_name, files[j])>>)
            ELSE found_movies)

\* `for root, _, files in os.walk(movies_dir)` of play_movie, from walk[i] on
RECURSIVE MovieDirs(_, _, _, _)
MovieDirs(walk, i, movie_name, found_movies) ==
    IF i > Len(walk) THEN found_movies
    ELSE MovieDirs(walk, i + 1, movie_name,
                   MovieFiles(walk[i].root, walk[i].files, 1, movie_name, found_movies))

\* The place of the entry a stable sort by score, highest first, puts first:
\* the first of those with the highest score
FirstBest(found_movies) ==
    CHOOSE i \in 1..Len(found_movies) :
        /\ \A j \in 1..Len(found_movies) : found_movies[j][2] <= found_movies[i][2]
        /\ \A j \in 1..(i - 1) : found_movies[j][2] < found_movies[i][2]

\* The place of the last of those with the highest score
LastBest(found_movies) ==
    CHOOSE i \in 1..Len(found_movies) :
        /\ \A j \in 1..Len(found_movies) : found_movies[j][2] <= found_movies[i][2]
        /\ \A j \in (i + 1)..Len(found_movies) : found_movies[j][2] < found_movies[i][2]

\* s without its i-th entry
Without(s, i) == SubSeq(s, 1, i - 1) \o SubSeq(s, i + 1, Len(s))

\* found_movies.sort(key=lambda x: x[1], reverse=True) putting the last of
\* the entries of equal score first
RECURSIVE SortedByScore_unstable(_)
SortedByScore_unstable(found_movies) ==
    IF found_movies = <<>> THEN <<>>
    ELSE <<found_movies[LastBest(found_movies)]>>
         \o SortedByScore_unstable(Without(found_movies, LastBest(found_movies)))

\* found_movies.sort(key=lambda x: x[1], reverse=True): the sort is stable
RECURSIVE SortedByScore(_)
SortedByScore(found_movies) ==
    IF found_movies = <<>> THEN <<>>
    ELSE <<found_movies[FirstBest(found_movies)]>>
         \o SortedByScore(Without(found_movies, FirstBest(found_movies)))

\* found_movies of play_movie when the walk has ended, before the sort
found_movies_of(fs, movie_name, walk) ==
    IF Truthy(movie_name) /\ os_path_exists(fs, MOVIES_DIR)
    THEN MovieDirs(walk, 1, movie_name, <<>>)
    ELSE <<>>

\* found_movies[0][0] after the sort
BestOf(found_movies) == IF found_movies = <<>> THEN <<>> ELSE found_movies[1][1]

\* best_match_path of play_movie: what the player is started on (nothing
\* when no movie was found)
best_match_path(fs, movie_name, walk) ==
    BestOf(SortedByScore(found_movies_of(fs, movie_name, walk)))

\* play_movie from the sort on
play_movie_found(fs, movie_name, found_movies, launched) ==
    IF found_movies = <<>>
    THEN Ret("No movie found with name '{a}'", movie_name, fs)
    ELSE IF ~launched THEN Ret("Error playing movie: {a}", <<"FileNotFoundError">>, fs)
    ELSE Ret("Playing movie: {a}", Basename(found_movies[1][1]), fs)

\* FileOperations.play_movie; walk is what os.walk(movies_dir) yields,
\* launched whether the player was started
play_movie(fs, movie_name, walk, launched) ==
    IF ~Truthy(movie_name) THEN Ret("No movie name specified.", <<>>, fs)
    ELSE IF ~os_path_exists(fs, MOVIES_DIR)
         THEN Ret("Movies directory does not exist: {a}", MOVIES_DIR, fs)
    ELSE play_movie_found(fs, movie_name,
                          SortedByScore(MovieDirs(walk, 1, movie_name, <<>>)), launched)

\* ------------------------------------------------------------ dispatch
\* The eight operation kinds execute_operation knows; a kind that is
\* missing or null in the plan arrives as None.
KnownKinds ==
    {"create_folder", "create_file", "rename_item", "move_item",
     "move_all_files", "open_file_explorer", "search_files", "play_movie"}
NullKind == "None"

\* A parameters dict maps its keys to strs or None; a null `parameters` in
\* the plan arrives as None instead of a dict.
NoParams == [x \in {} |-> <<>>]
NoneParams == [x \in {"None"} |-> None]

\* parameters.get(key, "")
ParamGet(parameters, key) ==
    IF key \in DOMAIN parameters THEN parameters[key] ELSE <<>>

UnknownText == "Sorry, I couldn't understand that command. Please try again."

\* What a call takes from outside the program: the order the directory
\* listing gives the files in, which move (if any) fails with an I/O error,
\* whether the launcher starts, and what os.walk yields.
Env(files, fail, launched, walk) ==
    [files |-> files, fail |-> fail, launched |-> launched, walk |-> walk]

\* The else branch of execute_operation, changed to look at the parameters
\* first, as the other branches do.
unknown_operation_getting(fs, parameters) ==
    IF parameters = NoneParams THEN Raise("AttributeError", fs)
    ELSE Ret(UnknownText, <<>>, fs)

\* The else branch of execute_operation: the kind is none of the eight
unknown_operation(fs, parameters) == Ret(UnknownText, <<>>, fs)

\* execute_operation
execute_operation(fs, cur, operation, parameters, env) ==
    IF operation \notin KnownKinds THEN unknown_operation(fs, parameters)
    ELSE IF parameters = NoneParams THEN Raise("AttributeError", fs)
    ELSE CASE operation = "create_folder" ->
                create_folder(fs, cur, ParamGet(parameters, "folder_name"),
                              ParamGet(parameters, "location"))
           [] operation = "create_file" ->
                create_file(fs, cur, ParamGet(parameters, "file_name"),
                            ParamGet(parameters, "location"),
                            ParamGet(parameters, "content"))
           [] operation = "rename_item" ->
                rename_item(fs, cur, ParamGet(parameters, "old_name"),
                            ParamGet(parameters, "new_name"),
                            ParamGet(parameters, "location"))
           [] operation = "move_item" ->
                move_item(fs, cur, ParamGet(parameters, "source"),
                          ParamGet(parameters, "destination"))
           [] operation = "move_all_files" ->
                move_all_files(fs, cur, ParamGet(parameters, "source_dir"),
                               ParamGet(parameters, "destination_dir"),
                               env.files, env.fail)
           [] operation = "open_file_explorer" ->
                open_file_explorer(fs, cur, ParamGet(parameters, "location"),
                                   env.launched)
           [] operation = "search_files" ->
                search_files(fs, cur, ParamGet(parameters, "search_term"),
                             ParamGet(parameters, "search_path"), env.walk)
           [] operation = "play_movie" ->
                play_movie(fs, ParamGet(parameters, "movie_name"),
                           env.walk, env.launched)

\* the files move_all_files will list
Listing(fs, cur, operation, parameters) ==
    IF operation = "move_all_files" /\ parameters # NoneParams
    THEN FilesIn(fs, resolve_path(fs, cur, ParamGet(parameters, "source_dir")))
    ELSE {}

\* what os.walk can yield to search_files or play_movie
WalksFor(fs, cur, operation, parameters) ==
    IF operation = "search_files" /\ parameters # NoneParams
       /\ Truthy(ParamGet(parameters, "search_term"))
    THEN Walks(fs, BasePath(fs, cur, ParamGet(parameters, "search_path")))
    ELSE IF operation = "play_movie" /\ parameters # NoneParams
            /\ Truthy(ParamGet(parameters, "movie_name"))
         THEN Walks(fs, MOVIES_DIR)
    ELSE {<<>>}

EnvsOf(listing, launches, walks) ==
    {Env(o, f, l, w) : o \in Orders(listing), f \in 0..Cardinality(listing),
                       l \in launches, w \in walks}

\* What the outside can give one call of execute_operation.
Envs(fs, cur, operation, parameters) ==
    EnvsOf(Listing(fs, cur, operation, parameters),
           IF operation \in {"open_file_explorer", "play_movie"} THEN BOOLEAN ELSE {TRUE},
           WalksFor(fs, cur, operation, parameters))

\* ------------------------------------------------------------ the plans tried
Op(operation, parameters) == [operation |-> operation, parameters |-> parameters]

Ops ==
    {Op("create_folder", ("folder_name" :> <<"n">>)),
     Op("create_folder", ("folder_name" :> <<" ", "s", " ">>) @@ ("location" :> <<>>)),
     Op("create_folder", ("folder_name" :> <<"a">>) @@ ("location" :> <<"s">>)),
     Op("create_folder", ("folder_name" :> None) @@ ("location" :> <<"s">>)),
     Op("create_folder", NoneParams),
     Op("create_file", ("file_name" :> <<"a">>) @@ ("location" :> <<"s">>) @@ ("content" :> <<"z", "z">>)),
     Op("create_file", ("file_name" :> <<"c">>) @@ ("location" :> <<"n">>) @@ ("content" :> <<"z", "z">>)),
     Op("create_file", ("file_name" :> <<"c">>) @@ ("location" :> <<"s">>) @@ ("content" :> <<"z", "z">>)),
     Op("create_file", ("file_name" :> None)),
     Op("rename_item", ("old_name" :> <<"x">>) @@ ("new_name" :> <<"y">>)),
     Op("rename_item", ("old_name" :> <<"a">>) @@ ("new_name" :> <<"b">>) @@ ("location" :> <<"s">>)),
     Op("rename_item", ("old_name" :> <<"a">>) @@ ("new_name" :> <<"c">>) @@ ("location" :> <<"s">>)),
     Op("rename_item", ("old_name" :> <<"a">>) @@ ("new_name" :> <<"n", "/", "c">>) @@ ("location" :> <<"s">>)),
     Op("rename_item", ("old_name" :> <<"a">>) @@ ("new_name" :> <<"a">>) @@ ("location" :> <<"s">>)),
     Op("rename_item", ("old_name" :> None) @@ ("new_name" :> <<"c">>)),
     Op("move_item", ("source" :> <<"s", "/", "a">>) @@ ("destination" :> <<"d">>)),
     Op("move_item", ("source" :> <<"s", "/", "b">>) @@ ("destination" :> <<"d">>)),
     Op("move_item", ("source" :> <<"/", "h", "/", "s", "/">>) @@ ("destination" :> <<"d">>)),
     Op("move_item", ("source" :> <<"x">>) @@ ("destination" :> <<"d">>)),
     Op("move_item", ("source" :> <<"s">>) @@ ("destination" :> <<"s", "/", "k">>)),
     Op("move_item", ("source" :> <<"s", "/", "a">>) @@ ("destination" :> <<"s", "/", "c">>)),
     Op("move_item", ("source" :> <<"s", "/", "k">>) @@ ("destination" :> <<"d">>)),
     Op("move_all_files", ("source_dir" :> <<"s">>) @@ ("destination_dir" :> <<"d">>)),
     Op("move_all_files", ("source_dir" :> <<"x">>) @@ ("destination_dir" :> <<"d">>)),
     Op("move_all_files", ("source_dir" :> <<"s", "/", "k">>) @@ ("destination_dir" :> <<"s">>)),
     Op("move_all_files", ("source_dir" :> <<"s">>) @@ ("destination_dir" :> <<"s", "/", "k">>)),
     Op("open_file_explorer", ("location" :> <<"s">>)),
     Op("open_file_explorer", NoParams),
     Op("search_files", ("search_term" :> <<"A">>) @@ ("search_path" :> <<"s">>)),
     Op("search_files", ("search_term" :> None)),
     Op("play_movie", ("movie_name" :> <<"a">>)),
     Op("delete_item", ("name" :> <<"a">>) @@ ("location" :> <<"s">>)),
     Op("delete_item", NoneParams),
     Op(NullKind, ("folder_name" :> <<"n">>))}

\* The plans parse_command hands over: one operation, or a list of them under
\* has_multiple_operations.
Plans ==
    {[multi |-> FALSE, operations |-> <<o>>] : o \in Ops}
    \cup {[multi |-> TRUE, operations |-> os] :
            os \in UNION {[1..n -> Ops] : n \in 0..MaxPlanLen}}

NoPlan == [multi |-> FALSE, operations |-> <<>>]

\* ------------------------------------------------------------ state
VARIABLES
    fs,            \* the filesystem: canonical path -> node
    current_path,  \* FileOperations.current_path
    plan,          \* what parse_command returned
    pc,            \* where `command` (or the resolver call) stands
    outputs,       \* the list `outputs` of the loop over the operations
    printed,       \* what went to `console` after the command was echoed
    tok,           \* the argument of the resolve_path call under test
    res,           \* what the call under test returned
    walk,          \* what os.walk yielded to the call under test
    found,         \* found_files or found_movies of the call under test
    seen,          \* how many files the loop of search_files looked at
    opened         \* the path the call under test gave the player

vars == <<fs, current_path, plan, pc, outputs, printed, tok, res, walk, found, seen, opened>>

\* The tree a run starts from: home /h with a source directory s (files a, b
\* and a subdirectory k), a destination directory d that already has a b, a
\* file f, the movies directory, and the working directory /w.
FS0 ==
    (<<>> :> DirNode)
    @@ (<<<<"h">>>> :> DirNode)
    @@ (<<<<"h">>, <<"M", "o", "v", "i", "e", "s">>>> :> DirNode)
    @@ (<<<<"h">>, <<"M", "o", "v", "i", "e", "s">>, <<"a", ".", "m", "p", "4">>>> :> FileNode(<<"v">>))
    @@ (<<<<"h">>, <<"d">>>> :> DirNode)
    @@ (<<<<"h">>, <<"d">>, <<"b">>>> :> FileNode(<<"3">>))
    @@ (<<<<"h">>, <<"f">>>> :> FileNode(<<"x">>))
    @@ (<<<<"h">>, <<"s">>>> :> DirNode)
    @@ (<<<<"h">>, <<"s">>, <<"a">>>> :> FileNode(<<"1">>))
    @@ (<<<<"h">>, <<"s">>, <<"b">>>> :> FileNode(<<"2">>))
    @@ (<<<<"h">>, <<"s">>, <<"k">>>> :> DirNode)
    @@ (<<<<"h">>, <<"s">>, <<"k">>, <<"z">>>> :> FileNode(<<"9">>))
    @@ (<<<<"w">>>> :> DirNode)

\* The same with a directory named C:\ in the working directory.
FS1 == Put(FS0, << <<"w">>, <<"C", ":", "\\">> >>, DirNode)

NoValidText == "No valid operations found in the command."

Init ==
    /\ fs = FS0
    /\ current_path = HOME_DIR
    /\ plan = NoPlan
    /\ pc = "start"
    /\ outputs = <<>>
    /\ printed = <<>>
    /\ tok = <<>>
    /\ res = <<>>
    /\ walk = <<>>
    /\ found = <<>>
    /\ seen = 0
    /\ opened = <<>>

\* The plan parse_command returns when it has no answer to give
UnknownPlan == [multi |-> FALSE, operations |-> <<Op("unknown", NoParams)>>]

Said(text, a) == Line("Print", 0, Msg(text, a, <<>>, 0, 0))

\* str(e) of an AttributeError, by the attribute that was missing
NoAttribute(name) == Line("Error", 0, Msg("raise", <<"AttributeError">>, <<name>>, 0, 0))

\* CommandProcessor() and parse_command(cmd): what they print, and the plan
\* they return or the exception command's except clause gets.
\*  - OPENROUTER_API_KEY unset: __init__ returns before it sets self.litellm,
\*    and parse_command's `if not self.litellm` raises;
\*  - litellm not installed: self.litellm is None, the plan is "unknown";
\*  - the completion call (or reading its response) raises;
\*  - the answer is not JSON;
\*  - the answer is JSON but not an object: result.get raises;
\*  - the answer is a plan.
Parsed ==
    {[console |-> <<Said("Error: OPENROUTER_API_KEY not set in environment variables.", <<>>),
                    Said("Please add your OpenRouter API key to the .env file.", <<>>),
                    NoAttribute("litellm")>>,
      raised |-> TRUE, plan |-> NoPlan],
     [console |-> <<Said("Error: LiteLLM package not installed.", <<>>),
                    Said("Please install it with: pip install litellm", <<>>)>>,
      raised |-> FALSE, plan |-> UnknownPlan],
     [console |-> <<Said("Error processing command with LiteLLM: {a}", <<"Exception">>)>>,
      raised |-> FALSE, plan |-> UnknownPlan],
     [console |-> <<Said("Warning: Could not parse JSON response from LLM.", <<>>),
                    Said("Response: {a}", <<"content">>)>>,
      raised |-> FALSE, plan |-> UnknownPlan],
     [console |-> <<NoAttribute("get")>>,
      raised |-> TRUE, plan |-> NoPlan]}
    \cup {[console |-> <<>>, raised |-> FALSE, plan |-> p] : p \in Plans}

\* command, up to the branch on has_multiple_operations
Command ==
    /\ pc = "start"
    /\ \E said \in Parsed :
        /\ plan' = said.plan
        /\ IF said.raised
           THEN /\ printed' = said.console
                /\ pc' = "done"
           ELSE IF said.plan.multi /\ said.plan.operations = <<>>
           THEN /\ printed' = said.console
                               \o <<Line("Warning", 0, Msg(NoValidText, <<>>, <<>>, 0, 0))>>
                /\ pc' = "done"
           ELSE /\ printed' = said.console
                /\ pc' = IF said.plan.multi THEN "loop" ELSE "single"
    /\ UNCHANGED <<fs, current_path, outputs, tok, res, walk, found, seen, opened>>

\* The loop, after execute_operation has returned or raised `output`
Stepped(output) ==
    /\ fs' = output.fs
    /\ IF output.raised
       THEN /\ printed' = printed \o output.console \o <<Line("Error", 0, output.msg)>>
            /\ pc' = "done"
            /\ outputs' = outputs
       ELSE /\ outputs' = Append(outputs, output.msg)
            /\ printed' = printed \o output.console
            /\ pc' = pc

\* execute_operation called on the tree the run started from instead of the
\* one the steps before it left
Execute_on_start(op_data, env) ==
    execute_operation(FS0, current_path, op_data.operation, op_data.parameters, env)

\* execute_operation(operation, parameters) of op_data
Execute(op_data, env) ==
    execute_operation(fs, current_path, op_data.operation, op_data.parameters, env)

\* One pass of `for op_data in operations`; an exception leaves the loop for
\* the except clause of command.
ExecStep ==
    /\ pc = "loop"
    /\ Len(outputs) < Len(plan.operations)
    /\ \E env \in Envs(fs, current_path, plan.operations[Len(outputs) + 1].operation,
                       plan.operations[Len(outputs) + 1].parameters) :
         Stepped(Execute(plan.operations[Len(outputs) + 1], env))
    /\ UNCHANGED <<current_path, plan, tok, res, walk, found, seen, opened>>

\* `for i, output in enumerate(outputs, 1)`: the steps' results are printed
Display ==
    /\ pc = "loop"
    /\ Len(outputs) = Len(plan.operations)
    /\ printed' = printed \o [k \in 1..Len(outputs) |-> Line("Step", k, outputs[k])]
    /\ pc' = "done"
    /\ UNCHANGED <<fs, current_path, plan, outputs, tok, res, walk, found, seen, opened>>

\* The single operation, after execute_operation has returned or raised
Executed(output) ==
    /\ fs' = output.fs
    /\ printed' = printed \o output.console
                   \o <<Line(IF output.raised THEN "Error" ELSE "Result", 0, output.msg)>>

\* The else branch of command: a single operation
ExecSingle ==
    /\ pc = "single"
    /\ \E env \in Envs(fs, current_path, plan.operations[1].operation,
                       plan.operations[1].parameters) :
         Executed(Execute(plan.operations[1], env))
    /\ pc' = "done"
    /\ UNCHANGED <<current_path, plan, outputs, tok, res, walk, found, seen, opened>>

Next == Command \/ ExecStep \/ Display \/ ExecSingle

Spec == Init /\ [][Next]_vars

\* ------------------------------------------------------------ properties of command
\* execute_operation is about to be called on CurOp
Running == pc = "single" \/ (pc = "loop" /\ Len(outputs) < Len(plan.operations))
CurOp == plan.operations[Len(outputs) + 1]
CurGet(key) == ParamGet(CurOp.parameters, key)
IsCall(kind) == Running /\ CurOp.operation = kind /\ CurOp.parameters # NoneParams

\* In a step taken from a Running state: did the call raise, and what it
\* returned (or raised)
StepRaised == printed' # printed /\ printed'[Len(printed')].tag = "Error"
StepMsg ==
    IF Len(outputs') > Len(outputs) THEN outputs'[Len(outputs')] ELSE printed'[Len(printed')].msg

\* The entry at path p of filesystem f with everything below it, as the set
\* of the pairs of a path relative to p and the node there; empty if there
\* is no such entry
TreeAt(f, p) ==
    LET at == Lookup(f, p)
    IN  IF ~IsEntry(at) THEN {}
        ELSE {<<SubSeq(q, Len(at) + 1, Len(q)), f[q]>> : q \in Subtree(f, at)}

\* C1: when command has finished with a plan of n >= 1 operations under
\* has_multiple_operations, all n steps were executed and n results were
\* printed, the i-th being step i's: no step keeps a later one from running.
C1_AllStepsRun ==
    (pc = "done" /\ plan.multi /\ Len(plan.operations) >= 1)
        => /\ Len(outputs) = Len(plan.operations)
           /\ Len(printed) >= Len(plan.operations)
           /\ \A k \in 1..Len(plan.operations) :
                 printed[Len(printed) - Len(plan.operations) + k] = Line("Step", k, outputs[k])

\* C2: no call of a handler lets an exception out: command never ends in its
\* except clause because of an operation of a known kind whose parameters are
\* a dict, whatever the values of the dict (null names included).
C2_HandlersTotal ==
    (/\ pc = "done"
     /\ printed # <<>>
     /\ printed[Len(printed)].tag = "Error"
     /\ Len(outputs) < Len(plan.operations))
        => ~(/\ plan.operations[Len(outputs) + 1].operation \in KnownKinds
             /\ plan.operations[Len(outputs) + 1].parameters # NoneParams)

\* C3: a call of execute_operation with a kind that is none of the eight
\* (a null kind included) returns the one fixed text whatever the parameters
\* are (a null parameters included), does not raise, and leaves the
\* filesystem and the current path as they were.
C3_UnknownKind ==
    [][(Running /\ CurOp.operation \notin KnownKinds)
         => /\ ~StepRaised
            /\ StepMsg = Msg(UnknownText, <<>>, <<>>, 0, 0)
            /\ fs' = fs
            /\ current_path' = current_path]_vars

\* A plan of an unknown kind with null parameters and a null kind with
\* parameters has run: both steps gave the fixed text.
C3_Witness ==
    /\ pc = "done"
    /\ plan.multi
    /\ Len(plan.operations) = 2
    /\ plan.operations[1] = Op("delete_item", NoneParams)
    /\ plan.operations[2].operation = NullKind
    /\ plan.operations[2].parameters # NoneParams
    /\ printed = <<Line("Step", 1, Msg(UnknownText, <<>>, <<>>, 0, 0)),
                   Line("Step", 2, Msg(UnknownText, <<>>, <<>>, 0, 0))>>
    /\ fs = FS0

\* C6: a call of move_all_files with both directories existing and at least
\* one regular file directly in the source, in which no move raised: every
\* such file whose name exists in the destination is left as it was in both
\* places, every other one is in the destination and gone from the source;
\* the counts reported are those of the two groups, so they add up to the
\* number of regular files, and the skip sentence is there exactly when the
\* skip count is not zero.
C6_MoveAllCounts ==
    [][LET source_path == resolve_path(fs, current_path, CurGet("source_dir"))
           dest_path == resolve_path(fs, current_path, CurGet("destination_dir"))
           files == FilesIn(fs, source_path)
           existing == {f \in files : os_path_exists(fs, PathJoin(dest_path, f))}
       IN  (/\ IsCall("move_all_files")
            /\ os_path_isdir(fs, source_path)
            /\ os_path_isdir(fs, dest_path)
            /\ files # {}
            /\ ~StepRaised
            /\ StepMsg.text # "Error moving files: {a}")
           => /\ \A f \in existing :
                   /\ TreeAt(fs', PathJoin(source_path, f)) = TreeAt(fs, PathJoin(source_path, f))
                   /\ TreeAt(fs', PathJoin(dest_path, f)) = TreeAt(fs, PathJoin(dest_path, f))
              /\ \A f \in files \ existing :
                   /\ ~os_path_exists(fs', PathJoin(source_path, f))
                   /\ TreeAt(fs', PathJoin(dest_path, f)) = TreeAt(fs, PathJoin(source_path, f))
              /\ StepMsg.n = Cardinality(files \ existing)
              /\ StepMsg.k = Cardinality(existing)
              /\ StepMsg.n + StepMsg.k = Cardinality(files)
              /\ StepMsg.text = IF existing = {} THEN MovedText ELSE MovedSkippedText]_vars

\* move_all_files from s {a, b} to d {b} has reported moved 1, skipped 1: a
\* is in d, and b is as it was in both.
C6_Witness ==
    /\ pc = "done"
    /\ ~plan.multi
    /\ plan.operations[1].operation = "move_all_files"
    /\ printed # <<>>
    /\ printed[1].msg.text = MovedSkippedText
    /\ printed[1].msg.n = 1
    /\ printed[1].msg.k = 1
    /\ Lookup(fs, <<"/", "h", "/", "s", "/", "a">>) = NoEnt
    /\ TreeAt(fs, <<"/", "h", "/", "d", "/", "a">>) = TreeAt(FS0, <<"/", "h", "/", "s", "/", "a">>)
    /\ TreeAt(fs, <<"/", "h", "/", "s", "/", "b">>) = TreeAt(FS0, <<"/", "h", "/", "s", "/", "b">>)
    /\ TreeAt(fs, <<"/", "h", "/", "d", "/", "b">>) = TreeAt(FS0, <<"/", "h", "/", "d", "/", "b">>)

\* C7: a call of move_item whose source exists and whose destination resolves
\* to an existing directory that has no entry of the source's name and does
\* not lie in the source: afterwards the item is at destination/name and no
\* longer at the source path, for every form of the source path, one ending
\* in a separator included.
C7_MoveInto ==
    [][LET source_path == resolve_path(fs, current_path, CurGet("source"))
           dest_path == resolve_path(fs, current_path, CurGet("destination"))
           into == PathJoin(dest_path, ShBasename(source_path))
       IN  (/\ IsCall("move_item")
            /\ os_path_exists(fs, source_path)
            /\ os_path_isdir(fs, dest_path)
            /\ ~os_path_exists(fs, into)
            /\ ~DestInSrc(source_path, into))
           => /\ ~os_path_exists(fs', source_path)
              /\ TreeAt(fs', into) = TreeAt(fs, source_path)]_vars

\* C8 as it stands: rename_item with names that are strs fails with the
\* filesystem unchanged when old_path does not exist or new_path exists, and
\* in every other case the entry is at new_path and no longer at old_path.
C8_RenameAlwaysLands ==
    [][LET base_path == IF Truthy(CurGet("location"))
                        THEN resolve_path(fs, current_path, CurGet("location"))
                        ELSE current_path
           old_path == PathJoin(base_path, CurGet("old_name"))
           new_path == PathJoin(base_path, CurGet("new_name"))
       IN  (/\ IsCall("rename_item")
            /\ CurGet("old_name") # None
            /\ CurGet("new_name") # None)
           => IF ~os_path_exists(fs, old_path)
              THEN StepMsg.text = "Source does not exist: {a}" /\ fs' = fs
              ELSE IF os_path_exists(fs, new_path)
              THEN StepMsg.text = "Destination already exists: {a}" /\ fs' = fs
              ELSE /\ ~os_path_exists(fs', old_path)
                   /\ TreeAt(fs', new_path) = TreeAt(fs, old_path)]_vars

\* C8, amended: rename_item with names that are strs fails with the
\* filesystem unchanged when old_path does not exist or new_path exists (so
\* also when the two names are equal); in every other case os.rename is
\* tried, and either it succeeds, and the entry is at new_path and no longer
\* at old_path, or it raises, and the call returns the renaming error with
\* the filesystem unchanged.
C8_RenameChecked ==
    [][LET base_path == IF Truthy(CurGet("location"))
                        THEN resolve_path(fs, current_path, CurGet("location"))
                        ELSE current_path
           old_path == PathJoin(base_path, CurGet("old_name"))
           new_path == PathJoin(base_path, CurGet("new_name"))
       IN  (/\ IsCall("rename_item")
            /\ CurGet("old_name") # None
            /\ CurGet("new_name") # None)
           => /\ ~StepRaised
              /\ IF ~os_path_exists(fs, old_path)
                 THEN StepMsg.text = "Source does not exist: {a}" /\ fs' = fs
                 ELSE IF os_path_exists(fs, new_path)
                 THEN StepMsg.text = "Destination already exists: {a}" /\ fs' = fs
                 ELSE \/ /\ StepMsg.text = "Renamed from {a} to {b}"
                         /\ ~os_path_exists(fs', old_path)
                         /\ TreeAt(fs', new_path) = TreeAt(fs, old_path)
                      \/ /\ StepMsg.text = "Error renaming item: {a}"
                         /\ fs' = fs]_vars

\* Two renames in s have run from the initial tree: a into the missing
\* directory n gave the renaming error, a to the existing b was refused, and
\* the tree is still the initial one.
C8_Witness ==
    /\ pc = "done"
    /\ plan.multi
    /\ Len(plan.operations) = 2
    /\ plan.operations[1].operation = "rename_item"
    /\ plan.operations[2].operation = "rename_item"
    /\ printed = <<Line("Step", 1, Msg("Error renaming item: {a}", <<"FileNotFoundError">>, <<>>, 0, 0)),
                   Line("Step", 2, Msg("Destination already exists: {a}",
                                       <<"/", "h", "/", "s", "/", "b">>, <<>>, 0, 0))>>
    /\ fs = FS0

\* C9: a call of move_item fails with the filesystem unchanged when the
\* resolved source does not exist, and fails with the filesystem unchanged
\* when the destination it would write to (the destination, or the
\* source's basename in it when it is a directory) exists: what is there is
\* never replaced.
C9_MoveRefused ==
    [][LET source_path == resolve_path(fs, current_path, CurGet("source"))
           dest0 == resolve_path(fs, current_path, CurGet("destination"))
           dest_path == IF os_path_isdir(fs, dest0)
                        THEN PathJoin(dest0, Basename(source_path)) ELSE dest0
       IN  IsCall("move_item")
           => /\ ~os_path_exists(fs, source_path)
                   => /\ ~StepRaised
                      /\ StepMsg = Msg("Source does not exist: {a}", source_path, <<>>, 0, 0)
                      /\ fs' = fs
              /\ (os_path_exists(fs, source_path) /\ os_path_exists(fs, dest_path))
                   => /\ ~StepRaised
                      /\ StepMsg = Msg("Destination already exists: {a}", dest_path, <<>>, 0, 0)
                      /\ fs' = fs]_vars

\* Moving the missing x and then s/b into d, which has a b, were both
\* refused, and the tree is the initial one.
C9_Witness ==
    /\ pc = "done"
    /\ plan.multi
    /\ Len(plan.operations) = 2
    /\ plan.operations[1].operation = "move_item"
    /\ plan.operations[2].operation = "move_item"
    /\ printed = <<Line("Step", 1, Msg("Source does not exist: {a}",
                                       <<"/", "h", "/", "x">>, <<>>, 0, 0)),
                   Line("Step", 2, Msg("Destination already exists: {a}",
                                       <<"/", "h", "/", "d", "/", "b">>, <<>>, 0, 0))>>
    /\ fs = FS0

\* C10: a call of create_folder whose folder_path exists, as a directory or
\* as a file, returns the already-exists text and leaves the filesystem, so
\* the entry and all below it, as it was.
C10_CreateFolderExisting ==
    [][LET base_path == IF Truthy(CurGet("location"))
                        THEN resolve_path(fs, current_path, CurGet("location"))
                        ELSE current_path
           folder_path == PathJoin(base_path, Strip(CurGet("folder_name")))
       IN  (/\ IsCall("create_folder")
            /\ CurGet("folder_name") # None
            /\ os_path_exists(fs, folder_path))
           => /\ ~StepRaised
              /\ StepMsg = Msg("Folder already exists: {a}", folder_path, <<>>, 0, 0)
              /\ fs' = fs
              /\ TreeAt(fs', folder_path) = TreeAt(fs, folder_path)]_vars

\* create_folder on the directory s and then on the file s/a were both
\* refused, and the tree is the initial one.
C10_Witness ==
    /\ pc = "done"
    /\ plan.multi
    /\ Len(plan.operations) = 2
    /\ printed = <<Line("Step", 1, Msg("Folder already exists: {a}",
                                       <<"/", "h", "/", "s">>, <<>>, 0, 0)),
                   Line("Step", 2, Msg("Folder already exists: {a}",
                                       <<"/", "h", "/", "s", "/", "a">>, <<>>, 0, 0))>>
    /\ fs = FS0

\* C11: a call of create_file with a str name whose file_path exists returns
\* the already-exists text and leaves the filesystem, so the content of the
\* entry, as it was, whatever content is passed; and a call of create_file
\* that repeats the operation the step before it executed leaves the
\* filesystem as that step left it.
C11_CreateFileIdempotent ==
    [][LET file_path == PathJoin(BasePath(fs, current_path, CurGet("location")),
                                 Strip(CurGet("file_name")))
       IN  (IsCall("create_file") /\ CurGet("file_name") # None)
           => /\ os_path_exists(fs, file_path)
                   => /\ ~StepRaised
                      /\ StepMsg = Msg("File already exists: {a}", file_path, <<>>, 0, 0)
                      /\ fs' = fs
                      /\ TreeAt(fs', file_path) = TreeAt(fs, file_path)
              /\ (pc = "loop" /\ Len(outputs) >= 1 /\ plan.operations[Len(outputs)] = CurOp)
                   => fs' = fs]_vars

\* create_file of c in s with content zz has run twice: the first call
\* created the file, the second found it, and it holds zz.
C11_Witness ==
    /\ pc = "done"
    /\ plan.multi
    /\ Len(plan.operations) = 2
    /\ plan.operations[1] = plan.operations[2]
    /\ printed = <<Line("Step", 1, Msg("Created file: {a}",
                                       <<"/", "h", "/", "s", "/", "c">>, <<>>, 0, 0)),
                   Line("Step", 2, Msg("File already exists: {a}",
                                       <<"/", "h", "/", "s", "/", "c">>, <<>>, 0, 0))>>
    /\ fs = Put(FS0, << <<"h">>, <<"s">>, <<"c">> >>, FileNode(<<"z", "z">>))

\* C16 as it stands: after a call of move_all_files on a source that is a
\* directory, every directory directly in the source is where it was with
\* all and only what was in it, whatever the result; the counts of a result
\* with counts add up to the number of regular files directly in the source;
\* and with both directories existing and no regular file directly in the
\* source the result is the no-files-found text and nothing has changed.
C16_SubdirsUntouched ==
    [][LET source_path == resolve_path(fs, current_path, CurGet("source_dir"))
           dest_path == resolve_path(fs, current_path, CurGet("destination_dir"))
       IN  (IsCall("move_all_files") /\ os_path_isdir(fs, source_path))
           => /\ ~StepRaised
              /\ \A d \in DirsIn(fs, source_path) :
                   TreeAt(fs', PathJoin(source_path, d)) = TreeAt(fs, PathJoin(source_path, d))
              /\ StepMsg.text \in {MovedText, MovedSkippedText}
                   => StepMsg.n + StepMsg.k = Cardinality(FilesIn(fs, source_path))
              /\ (os_path_isdir(fs, dest_path) /\ FilesIn(fs, source_path) = {})
                   => /\ StepMsg = Msg("No files found in the source directory: {a}",
                                       source_path, <<>>, 0, 0)
                      /\ fs' = fs]_vars

\* C16, amended: after a call of move_all_files on a source that is a
\* directory, whatever the result, every directory directly in the source
\* still has everything that was in it, in the same place with the same
\* content, and has nothing else unless the destination is that directory
\* or lies in it, in which case what it has gained are regular files of the
\* source, now directly in the destination; the counts of a result with
\* counts add up to the number of regular files directly in the source; and
\* with both directories existing and no regular file directly in the source
\* the result is the no-files-found text and nothing has changed.
C16_SubdirsKept ==
    [][LET source_path == resolve_path(fs, current_path, CurGet("source_dir"))
           dest_path == resolve_path(fs, current_path, CurGet("destination_dir"))
           Sub(d) == PathJoin(source_path, d)
           DestIn(d) == /\ os_path_isdir(fs, dest_path)
                        /\ IsPrefix(Lookup(fs, Sub(d)), Lookup(fs, dest_path))
           Gained(d) == {e[1] : e \in TreeAt(fs', Sub(d)) \ TreeAt(fs, Sub(d))}
       IN  (IsCall("move_all_files") /\ os_path_isdir(fs, source_path))
           => /\ ~StepRaised
              /\ \A d \in DirsIn(fs, source_path) :
                   /\ TreeAt(fs, Sub(d)) \subseteq TreeAt(fs', Sub(d))
                   /\ ~DestIn(d) => TreeAt(fs', Sub(d)) = TreeAt(fs, Sub(d))
                   /\ \A q \in Gained(d) :
                        /\ Lookup(fs, Sub(d)) \o SubSeq(q, 1, Len(q) - 1) = Lookup(fs, dest_path)
                        /\ q[Len(q)] \in FilesIn(fs, source_path)
                        /\ ~os_path_exists(fs', PathJoin(source_path, q[Len(q)]))
              /\ StepMsg.text \in {MovedText, MovedSkippedText}
                   => StepMsg.n + StepMsg.k = Cardinality(FilesIn(fs, source_path))
              /\ (os_path_isdir(fs, dest_path) /\ FilesIn(fs, source_path) = {})
                   => /\ StepMsg = Msg("No files found in the source directory: {a}",
                                       source_path, <<>>, 0, 0)
                      /\ fs' = fs]_vars

\* move_all_files from s into its directory k has run twice: the first call
\* moved a and b into k, where z still is, and the second found no files in s
\* and left k there.
C16_Witness ==
    /\ pc = "done"
    /\ plan.multi
    /\ Len(plan.operations) = 2
    /\ plan.operations[1].operation = "move_all_files"
    /\ printed = <<Line("Step", 1, Msg(MovedText, <<"/", "h", "/", "s">>,
                                       <<"/", "h", "/", "s", "/", "k">>, 2, 0)),
                   Line("Step", 2, Msg("No files found in the source directory: {a}",
                                       <<"/", "h", "/", "s">>, <<>>, 0, 0))>>
    /\ os_listdir(fs, <<"/", "h", "/", "s">>) = {<<"k">>}
    /\ os_listdir(fs, <<"/", "h", "/", "s", "/", "k">>) = {<<"a">>, <<"b">>, <<"z">>}
    /\ fs[<< <<"h">>, <<"s">>, <<"k">>, <<"z">> >>] = FileNode(<<"9">>)

\* Running the operations ops[i..] one after the other from filesystem f,
\* each on the filesystem the one before it left, can give the results
\* outs[i..], none raising, and leave filesystem last.
RECURSIVE RunsInOrder(_, _, _, _, _)
RunsInOrder(f, ops, i, outs, last) ==
    IF i > Len(ops) THEN f = last
    ELSE \E env \in Envs(f, current_path, ops[i].operation, ops[i].parameters) :
           LET output == execute_operation(f, current_path, ops[i].operation,
                                           ops[i].parameters, env)
           IN  /\ ~output.raised
               /\ output.msg = outs[i]
               /\ RunsInOrder(output.fs, ops, i + 1, outs, last)

\* C17: the loop of command runs the operations of the plan in the order of
\* the plan, one at a time. Each step taken in the loop is the call of the
\* next operation of the plan on the filesystem the steps before it left,
\* and its result goes to the end of the list of results; when the loop has
\* ended, the results are those of the operations of the plan in that order
\* and the filesystem is the one they leave when each is run on what the one
\* before it left, starting from the tree of the start; and the results are
\* printed in that order with their numbers.
C17_InPlanOrder ==
    [][/\ (pc = "loop" /\ Len(outputs) < Len(plan.operations))
           => \E env \in Envs(fs, current_path, CurOp.operation, CurOp.parameters) :
                LET output == execute_operation(fs, current_path, CurOp.operation,
                                                CurOp.parameters, env)
                IN  /\ fs' = output.fs
                    /\ output.raised => outputs' = outputs /\ pc' = "done"
                    /\ ~output.raised
                         => outputs' = Append(outputs, output.msg) /\ pc' = "loop"
       /\ (pc = "loop" /\ Len(outputs) = Len(plan.operations))
           => /\ RunsInOrder(FS0, plan.operations, 1, outputs, fs)
              /\ fs' = fs
              /\ printed' = printed \o [k \in 1..Len(plan.operations) |->
                                          Line("Step", k, outputs[k])]]_vars

\* The plan "create folder n, then create file c in n" has run: the second
\* step found the folder the first had made, which the tree at the start
\* does not have, and created the file in it.
C17_Witness ==
    /\ pc = "done"
    /\ plan.multi
    /\ Len(plan.operations) = 2
    /\ plan.operations[1].operation = "create_folder"
    /\ plan.operations[2].operation = "create_file"
    /\ ~os_path_exists(FS0, <<"/", "h", "/", "n">>)
    /\ printed = <<Line("Step", 1, Msg("Created folder: {a}",
                                       <<"/", "h", "/", "n">>, <<>>, 0, 0)),
                   Line("Step", 2, Msg("Created file: {a}",
                                       <<"/", "h", "/", "n", "/", "c">>, <<>>, 0, 0))>>
    /\ fs = Put(Put(FS0, << <<"h">>, <<"n">> >>, DirNode),
                << <<"h">>, <<"n">>, <<"c">> >>, FileNode(<<"z", "z">>))

\* The kinds of operation that create or relocate entries
ChangingKinds == {"create_folder", "create_file", "rename_item", "move_item", "move_all_files"}

\* How many entries of filesystem f are the node v
CountOf(f, v) == Cardinality({q \in DOMAIN f : f[q] = v})

\* C18: a call of create_folder, create_file, rename_item, move_item or
\* move_all_files deletes nothing and overwrites nothing. A path that is
\* taken before the call and after it holds what it held; every file
\* content and every folder there was is still there, as many times as it
\* was, at the path it had or at one that was free; and so every file
\* content of the tree of the start is at some path in every state reached.
C18_Conserved ==
    [][(Running /\ CurOp.operation \in ChangingKinds)
         => /\ \A q \in DOMAIN fs \cap DOMAIN fs' : fs'[q] = fs[q]
            /\ \A v \in {fs[q] : q \in DOMAIN fs} : CountOf(fs', v) >= CountOf(fs, v)
            /\ \A q \in DOMAIN FS0 :
                  FS0[q].kind = "file" => \E r \in DOMAIN fs' : fs'[r] = FS0[q]]_vars

\* The plan "move s/k into d, then move all files of s into d" has run: the
\* folder k went to d with its file z, a went to d, b stayed in s because d
\* has a b, and that b is as it was.
C18_Witness ==
    /\ pc = "done"
    /\ plan.multi
    /\ Len(plan.operations) = 2
    /\ plan.operations[1].operation = "move_item"
    /\ plan.operations[2].operation = "move_all_files"
    /\ printed = <<Line("Step", 1, Msg("Moved from {a} to {b}",
                                       <<"/", "h", "/", "s", "/", "k">>,
                                       <<"/", "h", "/", "d", "/", "k">>, 0, 0)),
                   Line("Step", 2, Msg(MovedSkippedText, <<"/", "h", "/", "s">>,
                                       <<"/", "h", "/", "d">>, 1, 1))>>
    /\ os_listdir(fs, <<"/", "h", "/", "s">>) = {<<"b">>}
    /\ fs[<< <<"h">>, <<"s">>, <<"b">> >>] = FileNode(<<"2">>)
    /\ fs[<< <<"h">>, <<"d">>, <<"b">> >>] = FileNode(<<"3">>)
    /\ fs[<< <<"h">>, <<"d">>, <<"a">> >>] = FileNode(<<"1">>)
    /\ fs[<< <<"h">>, <<"d">>, <<"k">> >>] = DirNode
    /\ fs[<< <<"h">>, <<"d">>, <<"k">>, <<"z">> >>] = FileNode(<<"9">>)

\* The files among the first k - 1 of the listing `files` that directory D
\* of filesystem f has no entry for
MovedBefore(f, D, files, k) ==
    {files[i] : i \in {j \in 1..(k - 1) : Append(D, files[j]) \notin DOMAIN f}}

\* Filesystem f with the files `moved` of directory S in directory D instead,
\* and nothing else changed
WithMoved(f, S, D, moved) ==
    [q \in (DOMAIN f \ {Append(S, n) : n \in moved}) \cup {Append(D, n) : n \in moved} |->
        IF \E n \in moved : q = Append(D, n) THEN f[Append(S, q[Len(q)])] ELSE f[q]]

\* What C19 says of the call of move_all_files from directory S to directory
\* D of filesystem f that gave `output`, with the listing `files` and the
\* move of its k-th file raising (k = 0: none raises)
PartialOutcome(f, S, D, files, k, output) ==
    IF k >= 1 /\ Append(D, files[k]) \notin DOMAIN f
    THEN /\ ~output.raised
         /\ output.msg = Msg("Error moving files: {a}", <<"OSError">>, <<>>, 0, 0)
         /\ output.fs = WithMoved(f, S, D, MovedBefore(f, D, files, k))
    ELSE output.msg.text # "Error moving files: {a}"

\* C19: when the move of the k-th file of the listing raises an I/O error in
\* a call of move_all_files (a file the destination has no entry for, so
\* that its move is attempted), the result is the error text alone, with no
\* counts; every file before it in the listing that the destination had no
\* entry for is in the destination with its content and gone from the source
\* (nothing is rolled back); the k-th file, every file after it and every
\* file the destination had an entry for is in the source as it was; and
\* nothing else of the filesystem has changed. With no such failure the
\* result is not the error text. A step of the call that gives the error
\* text leaves the filesystem of one of these outcomes.
C19_PartialFailure ==
    [][LET source_path == resolve_path(fs, current_path, CurGet("source_dir"))
           dest_path == resolve_path(fs, current_path, CurGet("destination_dir"))
           envs == EnvsOf(FilesIn(fs, source_path), {TRUE}, {<<>>})
       IN  (IsCall("move_all_files") /\ os_path_isdir(fs, source_path)
            /\ os_path_isdir(fs, dest_path))
           => /\ \A env \in envs :
                   PartialOutcome(fs, Lookup(fs, source_path), Lookup(fs, dest_path),
                                  env.files, env.fail,
                                  move_all_files_at(fs, source_path, dest_path,
                                                    env.files, env.fail))
              /\ ~StepRaised
              /\ StepMsg.text = "Error moving files: {a}"
                   => \E env \in envs :
                        /\ env.fail >= 1
                        /\ StepMsg = Msg("Error moving files: {a}", <<"OSError">>, <<>>, 0, 0)
                        /\ fs' = WithMoved(fs, Lookup(fs, source_path), Lookup(fs, dest_path),
                                           MovedBefore(fs, Lookup(fs, dest_path),
                                                       env.files, env.fail))]_vars

\* move_all_files of s into s/k has raised at its second move: the file
\* moved first is in s/k, the other is still in s and not in s/k, and the
\* result is the error text.
C19_Witness ==
    /\ pc = "done"
    /\ ~plan.multi
    /\ plan.operations[1].operation = "move_all_files"
    /\ printed = <<Line("Result", 0, Msg("Error moving files: {a}", <<"OSError">>,
                                         <<>>, 0, 0))>>
    /\ os_listdir(fs, <<"/", "h", "/", "s">>) = {<<"b">>, <<"k">>}
    /\ os_listdir(fs, <<"/", "h", "/", "s", "/", "k">>) = {<<"a">>, <<"z">>}
    /\ fs[<< <<"h">>, <<"s">>, <<"k">>, <<"a">> >>] = FileNode(<<"1">>)
    /\ fs[<< <<"h">>, <<"s">>, <<"b">> >>] = FileNode(<<"2">>)

\* ------------------------------------------------------------ the resolver alone
\* The characters the tokens tried are made of, and the tokens: every string
\* of at most MaxTokLen of them, None, and each alias in three spellings, and
\* drive references.
Alphabet == {"/", ":", " ", "\r", ".", "c", "C", "é"}

Capitalized(s) == IF s = <<>> THEN s ELSE <<UpperChar(s[1])>> \o Tail(s)

AliasTokens ==
    UNION {{k, Upper(k), <<" ">> \o Capitalized(k) \o <<" ", " ">>} :
             k \in DOMAIN COMMON_LOCATIONS}

DriveTokens ==
    {DriveWord \o <<" ", "c">>, DriveWord \o <<" ", " ", "C", ":">>,
     <<"D">> \o Tail(DriveWord) \o <<" ", "c">>, DriveWord \o <<"c">>,
     <<"c", ":", "\\">>}

Tokens ==
    UNION {[1..n -> Alphabet] : n \in 0..MaxTokLen}
    \cup AliasTokens \cup DriveTokens \cup {None}

CurrentPaths == {HOME_DIR, PathJoin(HOME_DIR, <<"s">>), <<Sep>>}

InitResolve ==
    /\ fs \in {FS0, FS1}
    /\ current_path \in CurrentPaths
    /\ tok \in Tokens
    /\ plan = NoPlan
    /\ pc = "resolve"
    /\ outputs = <<>>
    /\ printed = <<>>
    /\ res = <<>>
    /\ walk = <<>>
    /\ found = <<>>
    /\ seen = 0
    /\ opened = <<>>

\* One call of file_ops.resolve_path(tok)
Resolve ==
    /\ pc = "resolve"
    /\ res' = resolve_path(fs, current_path, tok)
    /\ pc' = "resolved"
    /\ UNCHANGED <<fs, current_path, plan, outputs, printed, tok, walk, found, seen, opened>>

NextResolve == Resolve

SpecResolve == InitResolve /\ [][NextResolve]_vars

\* ------------------------------------------------------------ search_files alone
\* A tree to search: /h/t with three files and the directories a and k, and
\* below k the directories k2 and k3; ten of its file names have an a or A.
FSW10 ==
    (<<>> :> DirNode)
    @@ (<<<<"h">>>> :> DirNode)
    @@ (<<<<"h">>, <<"t">>>> :> DirNode)
    @@ (<<<<"h">>, <<"t">>, <<"a", "1">>>> :> FileNode(<<>>))
    @@ (<<<<"h">>, <<"t">>, <<"A", "2">>>> :> FileNode(<<>>))
    @@ (<<<<"h">>, <<"t">>, <<"b">>>> :> FileNode(<<>>))
    @@ (<<<<"h">>, <<"t">>, <<"a">>>> :> DirNode)
    @@ (<<<<"h">>, <<"t">>, <<"a">>, <<"x", "a">>>> :> FileNode(<<>>))
    @@ (<<<<"h">>, <<"t">>, <<"a">>, <<"c">>>> :> FileNode(<<>>))
    @@ (<<<<"h">>, <<"t">>, <<"k">>>> :> DirNode)
    @@ (<<<<"h">>, <<"t">>, <<"k">>, <<"a", "3">>>> :> FileNode(<<>>))
    @@ (<<<<"h">>, <<"t">>, <<"k">>, <<"a", "4">>>> :> FileNode(<<>>))
    @@ (<<<<"h">>, <<"t">>, <<"k">>, <<"a", "b">>>> :> FileNode(<<>>))
    @@ (<<<<"h">>, <<"t">>, <<"k">>, <<"k", "2">>>> :> DirNode)
    @@ (<<<<"h">>, <<"t">>, <<"k">>, <<"k", "2">>, <<"a", "5">>>> :> FileNode(<<>>))
    @@ (<<<<"h">>, <<"t">>, <<"k">>, <<"k", "2">>, <<"a", "6">>>> :> FileNode(<<>>))
    @@ (<<<<"h">>, <<"t">>, <<"k">>, <<"k", "2">>, <<"a", "7">>>> :> FileNode(<<>>))
    @@ (<<<<"h">>, <<"t">>, <<"k">>, <<"k", "2">>, <<"k", "3">>>> :> DirNode)
    @@ (<<<<"h">>, <<"t">>, <<"k">>, <<"k", "2">>, <<"k", "3">>, <<"a", "8">>>> :> FileNode(<<>>))
    @@ (<<<<"w">>>> :> DirNode)

\* The same with an eleventh such file, in k3
FSW11 == Put(FSW10, << <<"h">>, <<"t">>, <<"k">>, <<"k", "2">>, <<"k", "3">>, <<"a", "9">> >>,
             FileNode(<<>>))

\* The searches tried: terms that match many files, few, directories only
\* and nothing, no term, and search paths that are a tree, a subtree, a
\* file, missing, and left out.
SearchOps ==
    {Op("search_files", ("search_term" :> <<"a">>) @@ ("search_path" :> <<"t">>)),
     Op("search_files", ("search_term" :> <<"A">>) @@ ("search_path" :> <<"/", "h", "/", "t", "/">>)),
     Op("search_files", ("search_term" :> <<"a">>)),
     Op("search_files", ("search_term" :> <<"a">>) @@ ("search_path" :> <<"t", "/", "k">>)),
     Op("search_files", ("search_term" :> <<"b">>) @@ ("search_path" :> <<"t">>)),
     Op("search_files", ("search_term" :> <<"k">>) @@ ("search_path" :> <<"t">>)),
     Op("search_files", ("search_term" :> <<"t", "/", "b">>) @@ ("search_path" :> <<"t">>)),
     Op("search_files", ("search_term" :> <<"a">>) @@ ("search_path" :> <<"t", "/", "b">>)),
     Op("search_files", ("search_term" :> <<"a">>) @@ ("search_path" :> <<"x">>)),
     Op("search_files", ("search_term" :> <<>>) @@ ("search_path" :> <<"t">>)),
     Op("search_files", ("search_term" :> None) @@ ("search_path" :> <<"t">>))}

InitSearch ==
    /\ fs \in {FSW10, FSW11}
    /\ current_path = HOME_DIR
    /\ plan \in {[multi |-> FALSE, operations |-> <<o>>] : o \in SearchOps}
    /\ pc = "search"
    /\ outputs = <<>>
    /\ printed = <<>>
    /\ tok = <<>>
    /\ res = <<>>
    /\ walk = <<>>
    /\ found = <<>>
    /\ seen = 0
    /\ opened = <<>>

\* search_files with os.walk yielding w
Searched(search_term, search_path, w) ==
    /\ walk' = w
    /\ res' = search_files(fs, current_path, search_term, search_path, w).msg
    /\ printed' = search_files(fs, current_path, search_term, search_path, w).console
    /\ found' = search_files_loop(fs, current_path, search_term, search_path, w).found
    /\ seen' = search_files_loop(fs, current_path, search_term, search_path, w).seen

\* One call of file_ops.search_files with the parameters of the operation
Search ==
    /\ pc = "search"
    /\ \E w \in WalksFor(fs, current_path, "search_files", plan.operations[1].parameters) :
         Searched(ParamGet(plan.operations[1].parameters, "search_term"),
                  ParamGet(plan.operations[1].parameters, "search_path"), w)
    /\ pc' = "searched"
    /\ UNCHANGED <<fs, current_path, plan, outputs, tok, opened>>

NextSearch == Search

SpecSearch == InitSearch /\ [][NextSearch]_vars

\* ------------------------------------------------------------ properties of search_files
\* The files of a walk in the order the loops come by them, each as the
\* pair of its directory and its name
RECURSIVE WalkOrder(_)
WalkOrder(w) ==
    IF w = <<>> THEN <<>>
    ELSE [j \in 1..Len(Head(w).files) |-> <<Head(w).root, Head(w).files[j]>>]
         \o WalkOrder(Tail(w))

Min(a, b) == IF a <= b THEN a ELSE b

\* C12: a call of search_files with a term that is not empty and a base path
\* that exists finds min(10, m) files, m being the number of files of the
\* tree whose name has the term in it, letter case aside: never more than
\* 10, the first ones in the order of the walk, no file after the 10th match
\* being looked at; it returns the count, or the no-files-found text when m
\* is 0.  With an empty term it returns the no-term text and walks nothing.
C12_SearchCapped ==
    pc = "searched" =>
        LET search_term == ParamGet(plan.operations[1].parameters, "search_term")
            base_path == BasePath(fs, current_path,
                                  ParamGet(plan.operations[1].parameters, "search_path"))
            Hit(name) == IsSubstr(Lower(search_term), Lower(name))
            all == WalkOrder(walk)
            hits == {i \in 1..Len(all) : Hit(all[i][2])}
            m == Cardinality({q \in WalkFiles(fs, base_path) : Hit(q[Len(q)])})
            NthHit(n) == CHOOSE i \in hits : Cardinality({j \in hits : j <= i}) = n
        IN  IF ~Truthy(search_term)
            THEN /\ res = Msg("No search term specified.", <<>>, <<>>, 0, 0)
                 /\ walk = <<>> /\ seen = 0 /\ found = <<>>
            ELSE os_path_exists(fs, base_path)
                 => /\ Cardinality(hits) = m
                    /\ Len(found) = Min(10, m)
                    /\ Len(found) <= 10
                    /\ \A n \in 1..Min(10, m) :
                         found[n] = PathJoin(all[NthHit(n)][1], all[NthHit(n)][2])
                    /\ seen = IF m >= 10 THEN NthHit(10) ELSE Len(all)
                    /\ res = IF m = 0
                             THEN Msg("No files found containing '{a}' in {b}",
                                      search_term, base_path, 0, 0)
                             ELSE Msg("Found {n} files containing '{a}'",
                                      search_term, <<>>, Min(10, m), 0)

\* A search for "a" in the tree of eleven such files has found ten, the
\* tenth being a8 in the last directory of the walk, and has not looked at
\* the eleventh, a9, which the listing of that directory gave after it.
C12_Witness ==
    /\ pc = "searched"
    /\ fs = FSW11
    /\ plan.operations[1].parameters["search_term"] = <<"a">>
    /\ res = Msg("Found {n} files containing '{a}'", <<"a">>, <<>>, 10, 0)
    /\ Len(found) = 10
    /\ found[10] = <<"/", "h", "/", "t", "/", "k", "/", "k", "2", "/", "k", "3", "/", "a", "8">>
    /\ seen = Len(WalkOrder(walk)) - 1
    /\ WalkOrder(walk)[seen + 1][2] = <<"a", "9">>

\* ------------------------------------------------------------ play_movie alone
\* The movies directory with the two files of the matcher's example
FSM1 ==
    (<<>> :> DirNode)
    @@ (<<<<"h">>>> :> DirNode)
    @@ (<<<<"h">>, <<"M", "o", "v", "i", "e", "s">>>> :> DirNode)
    @@ (<<<<"h">>, <<"M", "o", "v", "i", "e", "s">>,
         <<"I", "n", "c", "e", "p", "t", "i", "o", "n", ".", "2", "0", "1", "0", ".", "m", "k", "v">>>>
          :> FileNode(<<>>))
    @@ (<<<<"h">>, <<"M", "o", "v", "i", "e", "s">>, <<"O", "t", "h", "e", "r", ".", "m", "p", "4">>>>
          :> FileNode(<<>>))
    @@ (<<<<"w">>>> :> DirNode)

\* The movies directory with the videos "a b.mp4" and "a a.mkv" and the text
\* file ab.txt, and in its directory k the videos a.avi and "A B.MP4"
FSM2 ==
    (<<>> :> DirNode)
    @@ (<<<<"h">>>> :> DirNode)
    @@ (<<<<"h">>, <<"M", "o", "v", "i", "e", "s">>>> :> DirNode)
    @@ (<<<<"h">>, <<"M", "o", "v", "i", "e", "s">>, <<"a", " ", "b", ".", "m", "p", "4">>>>
          :> FileNode(<<>>))
    @@ (<<<<"h">>, <<"M", "o", "v", "i", "e", "s">>, <<"a", " ", "a", ".", "m", "k", "v">>>>
          :> FileNode(<<>>))
    @@ (<<<<"h">>, <<"M", "o", "v", "i", "e", "s">>, <<"a", "b", ".", "t", "x", "t">>>>
          :> FileNode(<<>>))
    @@ (<<<<"h">>, <<"M", "o", "v", "i", "e", "s">>, <<"k">>>> :> DirNode)
    @@ (<<<<"h">>, <<"M", "o", "v", "i", "e", "s">>, <<"k">>, <<"a", ".", "a", "v", "i">>>>
          :> FileNode(<<>>))
    @@ (<<<<"h">>, <<"M", "o", "v", "i", "e", "s">>, <<"k">>, <<"A", " ", "B", ".", "M", "P", "4">>>>
          :> FileNode(<<>>))
    @@ (<<<<"w">>>> :> DirNode)

\* The movie names tried: one word, several, a word twice, words in an order
\* no file name has, more than one space, capitals, a name no file has, a
\* name in a text file only, a space, the empty name and null.
PlayOps ==
    {Op("play_movie", ("movie_name" :> <<"i", "n", "c", "e", "p", "t", "i", "o", "n">>)),
     Op("play_movie", ("movie_name" :> <<"a">>)),
     Op("play_movie", ("movie_name" :> <<"a", " ", "b">>)),
     Op("play_movie", ("movie_name" :> <<"A", " ", " ", "b">>)),
     Op("play_movie", ("movie_name" :> <<"a", " ", "a">>)),
     Op("play_movie", ("movie_name" :> <<"b", " ", "a">>)),
     Op("play_movie", ("movie_name" :> <<"z">>)),
     Op("play_movie", ("movie_name" :> <<"t", "x", "t">>)),
     Op("play_movie", ("movie_name" :> <<" ">>)),
     Op("play_movie", ("movie_name" :> <<>>)),
     Op("play_movie", ("movie_name" :> None))}

InitPlay ==
    /\ fs \in {FSM1, FSM2}
    /\ current_path = HOME_DIR
    /\ plan \in {[multi |-> FALSE, operations |-> <<o>>] : o \in PlayOps}
    /\ pc = "play"
    /\ outputs = <<>>
    /\ printed = <<>>
    /\ tok = <<>>
    /\ res = <<>>
    /\ walk = <<>>
    /\ found = <<>>
    /\ seen = 0
    /\ opened = <<>>

\* play_movie with os.walk yielding w and the player starting or not
Played(movie_name, w, launched) ==
    /\ walk' = w
    /\ res' = play_movie(fs, movie_name, w, launched).msg
    /\ found' = SortedByScore(found_movies_of(fs, movie_name, w))
    /\ opened' = IF launched THEN best_match_path(fs, movie_name, w) ELSE <<>>

\* One call of file_ops.play_movie with the parameters of the operation
Play ==
    /\ pc = "play"
    /\ \E w \in WalksFor(fs, current_path, "play_movie", plan.operations[1].parameters),
          launched \in BOOLEAN :
         Played(ParamGet(plan.operations[1].parameters, "movie_name"), w, launched)
    /\ pc' = "played"
    /\ UNCHANGED <<fs, current_path, plan, outputs, printed, tok, seen>>

NextPlay == Play

SpecPlay == InitPlay /\ [][NextPlay]_vars

\* ------------------------------------------------------------ properties of play_movie
\* C13: the score play_movie gives a video file for a movie name is 50 if
\* the lower-cased name as a whole is in the lower-cased file name, plus 10
\* for each place in the list of the name's whitespace-separated words whose
\* word is in the lower-cased file name (so a word the name has k times
\* counts k times); the files found are those of a score above 0, each with
\* that score.
C13_Score ==
    pc = "played" =>
        LET movie_name == ParamGet(plan.operations[1].parameters, "movie_name")
            movie_words == Words(Lower(movie_name))
            Whole(file) == IF IsSubstr(Lower(movie_name), Lower(file)) THEN 50 ELSE 0
            PerWord(file) ==
                10 * Cardinality({i \in 1..Len(movie_words) :
                                    IsSubstr(movie_words[i], Lower(file))})
            all == WalkOrder(walk)
            videos == {i \in 1..Len(all) : IsVideo(all[i][2])}
        IN  Truthy(movie_name)
            => /\ Len(all) = Cardinality(WalkFiles(fs, MOVIES_DIR))
               /\ \A i \in videos :
                    IF Whole(all[i][2]) + PerWord(all[i][2]) > 0
                    THEN \E n \in 1..Len(found) :
                           found[n] = <<PathJoin(all[i][1], all[i][2]),
                                        Whole(all[i][2]) + PerWord(all[i][2])>>
                    ELSE \A n \in 1..Len(found) :
                           found[n][1] # PathJoin(all[i][1], all[i][2])
               /\ \A n \in 1..Len(found) :
                    \E i \in videos : found[n][1] = PathJoin(all[i][1], all[i][2])

\* play_movie("a a") has scored "a a.mkv" 70, the whole name and its word
\* twice, and a.avi 20, the word twice.
C13_Witness ==
    /\ pc = "played"
    /\ fs = FSM2
    /\ plan.operations[1].parameters["movie_name"] = <<"a", " ", "a">>
    /\ Len(found) = 4
    /\ found[1] = <<MOVIES_DIR \o <<"/", "a", " ", "a", ".", "m", "k", "v">>, 70>>
    /\ \E n \in 2..4 : found[n] = <<MOVIES_DIR \o <<"/", "k", "/", "a", ".", "a", "v", "i">>, 20>>

\* C14: play_movie with a movie name and an existing movies directory: when
\* no video file of the tree scores above 0 it returns the no-movie-found
\* text with the name and starts no player; otherwise the file it selects is
\* a video file of a score above 0 that no video file exceeds and that no
\* video file the walk came by earlier equals, and that is the file the
\* player is started on and whose basename is reported.  With the files
\* Inception.2010.mkv and Other.mp4 and the name "inception" it selects
\* Inception.2010.mkv.
C14_BestMatch ==
    pc = "played" =>
        LET movie_name == ParamGet(plan.operations[1].parameters, "movie_name")
            all == WalkOrder(walk)
            videos == {i \in 1..Len(all) : IsVideo(all[i][2])}
            ScoreAt(i) == Score(movie_name, all[i][2])
        IN  Truthy(movie_name)
            => /\ IF \A i \in videos : ScoreAt(i) = 0
                  THEN /\ res = Msg("No movie found with name '{a}'", movie_name, <<>>, 0, 0)
                       /\ found = <<>>
                       /\ opened = <<>>
                  ELSE /\ \E i \in videos :
                            /\ found[1][1] = PathJoin(all[i][1], all[i][2])
                            /\ ScoreAt(i) > 0
                            /\ \A j \in videos : ScoreAt(j) <= ScoreAt(i)
                            /\ \A j \in videos : j < i => ScoreAt(j) < ScoreAt(i)
                       /\ \/ /\ res = Msg("Playing movie: {a}", Basename(found[1][1]), <<>>, 0, 0)
                             /\ opened = found[1][1]
                          \/ /\ res.text = "Error playing movie: {a}"
                             /\ opened = <<>>
               /\ (fs = FSM1 /\ Lower(movie_name) = <<"i", "n", "c", "e", "p", "t", "i", "o", "n">>)
                    => /\ Len(found) = 1
                       /\ Basename(found[1][1]) =
                            <<"I", "n", "c", "e", "p", "t", "i", "o", "n", ".", "2", "0", "1", "0",
                              ".", "m", "k", "v">>

\* play_movie("a") with four videos of the same score: the walk came by
\* "a a.mkv" first, after the text file and before "a b.mp4", and that is the
\* one played.
C14_Witness ==
    /\ pc = "played"
    /\ fs = FSM2
    /\ plan.operations[1].parameters["movie_name"] = <<"a">>
    /\ Len(found) = 4
    /\ \A n \in 1..4 : found[n][2] = 60
    /\ walk[1].files = << <<"a", "b", ".", "t", "x", "t">>, <<"a", " ", "a", ".", "m", "k", "v">>,
                          <<"a", " ", "b", ".", "m", "p", "4">> >>
    /\ opened = MOVIES_DIR \o <<"/", "a", " ", "a", ".", "m", "k", "v">>
    /\ res = Msg("Playing movie: {a}", <<"a", " ", "a", ".", "m", "k", "v">>, <<>>, 0, 0)

\* ------------------------------------------------------------ properties of the resolver
\* C4: for every token and every absolute current path, resolve_path returns
\* an absolute path (no rule, the letter-and-colon rule included, returns a
\* relative one).
C4_ResolvedIsAbsolute ==
    (pc = "resolved" /\ IsAbs(current_path)) => IsAbs(res)

\* C5: a token whose stripped, lower-cased form is a key of COMMON_LOCATIONS
\* resolves to the path mapped to that key, whatever its letter case, the white
\* space around it and the current path.
C5_AliasLookup ==
    \A k \in DOMAIN COMMON_LOCATIONS :
        (pc = "resolved" /\ tok # None /\ Lower(Strip(tok)) = k)
            => res = COMMON_LOCATIONS[k]

\* " Desktop  " was resolved from a current path other than home.
C5_Witness ==
    /\ pc = "resolved"
    /\ tok = <<" ", "D", "e", "s", "k", "t", "o", "p", " ", " ">>
    /\ current_path # HOME_DIR
    /\ res = DESKTOP_DIR

\* Rules 2 to 6 of the resolver as the specification lists them, applied to
\* token t: an absolute token as it is; the path of the alias that the
\* trimmed, lower-cased token names; the root of the drive the token refers
\* to, if that root exists; a token that begins with a letter and a colon as
\* it is; otherwise the current path joined with the token, normalized.
RulesFrom2(f, cur, t) ==
    IF IsAbs(t) THEN t
    ELSE IF Lower(Strip(t)) \in DOMAIN COMMON_LOCATIONS
         THEN COMMON_LOCATIONS[Lower(Strip(t))]
    ELSE IF DriveMatch(t) # NoMatch /\ os_path_exists(f, DrivePath(DriveMatch(t)))
         THEN DrivePath(DriveMatch(t))
    ELSE IF Len(t) >= 2 /\ IsAlpha(t[1]) /\ t[2] = ":" THEN t
    ELSE NormPath(PathJoin(cur, t))

\* C15 as it stands: resolve_path returns what the six rules give for the
\* token, the first rule that applies deciding: the current path for an
\* empty token, and an absolute token unchanged.
C15_RulesAsStated ==
    pc = "resolved"
        => res = IF ~Truthy(tok) THEN current_path ELSE RulesFrom2(fs, current_path, tok)

\* C15, amended: resolve_path returns the current path for an empty (or
\* null) token, and otherwise what rules 2 to 6 give, the first that applies
\* deciding, for the token with the white space around it removed: so an
\* absolute token comes back trimmed and otherwise unchanged, an alias comes
\* before a drive reference, and a drive reference whose root does not exist
\* is not resolved to that root: it comes back as it is if it is a letter
\* and a colon, and joined to the current path and normalized if not.
C15_RulesOnTrimmed ==
    pc = "resolved"
        => /\ res = IF ~Truthy(tok) THEN current_path
                    ELSE RulesFrom2(fs, current_path, Strip(tok))
           /\ (Truthy(tok) /\ IsAbs(Strip(tok))) => res = Strip(tok)
           /\ (Truthy(tok) /\ ~IsAbs(Strip(tok)) /\ DriveMatch(Strip(tok)) # NoMatch
                 /\ Lower(Strip(tok)) \notin DOMAIN COMMON_LOCATIONS
                 /\ ~os_path_exists(fs, DrivePath(DriveMatch(Strip(tok)))))
                => res = IF Len(Strip(tok)) >= 2 /\ Strip(tok)[2] = ":" THEN Strip(tok)
                         ELSE NormPath(PathJoin(current_path, Strip(tok)))

\* " c:" was resolved where the root C:\ exists, to that root and not to
\* the token as a letter and a colon.
C15_Witness ==
    /\ pc = "resolved"
    /\ fs = FS1
    /\ tok = <<" ", "c", ":">>
    /\ res = <<"C", ":", "\\">>

====
